---------------------------- MODULE Spec2Model ----------------------------
(***************************************************************************)
(* A model of the Caddy Gateway API controller (caddyserver/gateway).      *)
(*                                                                         *)
(* Specifications:                                                         *)
(*   SpecProgram      one Gateway key of the Gateway controller: the work  *)
(*                    queue, GatewayReconciler.Reconcile and its programmer*)
(*                    goroutines, step by step.                            *)
(*   SpecProgramFair  SpecProgram with the fairness the runtime's worker   *)
(*                    and the Go scheduler give.                           *)
(*   SpecGrant        ReferenceGrants are created and isReferenceAllowed   *)
(*                    is called on a cross-namespace reference.            *)
(*   Spec             the cluster: the GatewayClass, Gateway and HTTPRoute *)
(*                    reconcilers, each from start to return, with the     *)
(*                    HTTPRoute edited and its ReferenceGrant created and  *)
(*                    deleted in between; the Caddy config they produce.   *)
(*   SpecFunctions    functions called on their own, once, on arguments    *)
(*                    drawn from bounded sets: isAllowed, isKindAllowed,   *)
(*                    ComputeHosts, handleListener, the redirect Location, *)
(*                    the route watch of the Gateway controller, checkCRDs.*)
(*   SpecControllers  the Gateway controller and the controller of the    *)
(*                    route's kind (HTTPRoute or UDPRoute) with their work *)
(*                    queues and no outside change, under the fairness of  *)
(*                    the runtime's workers.                               *)
(*                                                                         *)
(* Strings the code inspects character by character (controller names) are *)
(* sequences of one-character strings; NIL stands for a nil pointer.       *)
(***************************************************************************)
EXTENDS Integers, Sequences, FiniteSets, TLC

VARIABLES
    now,          \* the reading of time.Now() / metav1.Now()
    gwc,          \* the GatewayClass object of the Gateway
    gw,           \* the Gateway object as stored in the cluster
    epsList,      \* Endpoints objects labelled owning-gateway=<gw.name>, in list order
    svcList,      \* Service objects labelled owning-gateway=<gw.name>, in list order
    configFails,  \* whether caddy.Input.Config fails for another reason than a Secret
    queued,       \* the Gateway key is in the controller's work queue
    pc,           \* position of GatewayReconciler.Reconcile
    gwNew,        \* Reconcile's local copy of the Gateway (gw := original.DeepCopy())
    addrs,        \* caddyEps.Subsets[0].Addresses of the running Reconcile
    idx,          \* index of the fan-out loop over addrs
    wg,           \* the sync.WaitGroup counter
    task,         \* state of the goroutine of each address
    attempts,     \* POSTs issued to each address by the running/last Reconcile
    statusWrites, \* Status().Update calls of the running/last Reconcile
    result,       \* what the last Reconcile returned
    failedBefore, \* addresses whose programming failed in the previous Reconcile
    route,        \* the HTTPRoute object as stored in the cluster
    grants,       \* the ReferenceGrant objects of the cluster, in list order
    services,     \* the Service objects of the cluster that routes may reference
    config,       \* the Caddy config of the last programming: its HTTP servers
    clean,        \* per reconciler: it succeeded and its inputs are unchanged since
    call,         \* the arguments of the last isReferenceAllowed call
    allowed,      \* what that call returned
    args,         \* the function called on its own and its arguments
    ret,          \* what that function returned
    routeQueued,  \* the route key is in its route controller's work queue
    layer4Servers,\* the Caddy config of the last programming: its layer4 servers
    updates       \* status updates that changed a stored object, since Init

progVars == <<gwc, gw, epsList, svcList, configFails, queued, pc, gwNew, addrs,
              idx, wg, task, attempts, statusWrites, result, failedBefore>>

clusterVars == <<route, grants, services, config, clean>>

grantVars == <<call, allowed>>

functionVars == <<args, ret>>

queueVars == <<routeQueued, layer4Servers, updates>>

vars == <<now, progVars, clusterVars, grantVars, functionVars, queueVars>>

NIL == "nil"

\* Bounds of the model.
MaxAddresses == 2
MaxSubsets == 2

SeqsUpTo(S, n) == UNION {[1..k -> S] : k \in 0..n}

(***************************************************************************)
(* internal/gateway.go                                                     *)
(***************************************************************************)

\* gateway.ControllerName = "caddyserver.com/gateway-controller", as characters.
ControllerName == <<"c", "/", "g">>

HasPrefix(s, prefix) ==
    /\ Len(s) >= Len(prefix)
    /\ SubSeq(s, 1, Len(prefix)) = prefix

MatchesControllerName(v) == HasPrefix(v, ControllerName)

(***************************************************************************)
(* Conditions (metav1.Condition) and meta.SetStatusCondition               *)
(***************************************************************************)

Condition(type, status, reason, message) ==
    [type |-> type, status |-> status, reason |-> reason, message |-> message,
     observedGeneration |-> 0, lastTransitionTime |-> 0]

\* meta.FindStatusCondition(conds, type) finds the first condition of the type;
\* the callers only test its presence and its status.
ConditionHasStatus(conds, type, status) ==
    \E k \in 1..Len(conds) :
        /\ conds[k].type = type
        /\ \A j \in 1..(k - 1) : conds[j].type # type
        /\ conds[k].status = status

ConditionIs(conds, type, status, reason) ==
    \E k \in 1..Len(conds) :
        /\ conds[k].type = type
        /\ \A j \in 1..(k - 1) : conds[j].type # type
        /\ conds[k].status = status
        /\ conds[k].reason = reason

\* meta.SetStatusCondition: append a new type with the current time; for an
\* existing type refresh lastTransitionTime only when the status changes, and
\* copy reason, message and observedGeneration.
SetStatusCondition(conds, c, t) ==
    IF \E k \in 1..Len(conds) : conds[k].type = c.type
    THEN LET k == CHOOSE j \in 1..Len(conds) :
                      /\ conds[j].type = c.type
                      /\ \A m \in 1..(j - 1) : conds[m].type # c.type
             old == conds[k]
         IN  [conds EXCEPT ![k] =
                 [type |-> old.type,
                  status |-> c.status,
                  reason |-> c.reason,
                  message |-> c.message,
                  observedGeneration |-> c.observedGeneration,
                  lastTransitionTime |->
                      IF old.status # c.status THEN t ELSE old.lastTransitionTime]]
    ELSE Append(conds, [c EXCEPT !.lastTransitionTime = t])

\* cmp.Equal without the option that ignores LastTransitionTime.
IgnoreNothing(conds) == conds

\* cmpopts.IgnoreFields(metav1.Condition{}, "LastTransitionTime")
IgnoreLastTransitionTime(conds) ==
    [k \in 1..Len(conds) |-> [conds[k] EXCEPT !.lastTransitionTime = 0]]

\* cmp.Equal(oldStatus, newStatus, IgnoreFields(Condition, LastTransitionTime))
GatewayStatusEqual(old, new) ==
    /\ IgnoreLastTransitionTime(old.conditions) = IgnoreLastTransitionTime(new.conditions)
    /\ old.addresses = new.addresses

(***************************************************************************)
(* The cluster objects one Gateway reconcile reads                         *)
(***************************************************************************)

GwNamespace == "a"
GwName == "gw"

EmptyGatewayStatus == [conditions |-> <<>>, addresses |-> <<>>]

\* spec.controllerName values of the GatewayClass: this controller, a sub-path
\* of it, and another controller.
ClassControllers ==
    {ControllerName, ControllerName \o <<"/", "2">>, <<"c", "/", "x">>}

ClassConditions ==
    {<<>>,
     <<Condition("Accepted", "True", "Accepted", "")>>,
     <<Condition("Accepted", "False", "Pending", "")>>}

EndpointAddresses == [hasTargetRef : BOOLEAN]

\* The Endpoints objects the label selector returns: none, or one whose first
\* subset is any list of up to MaxAddresses addresses; later subsets, never
\* read, hold one address with a target.  The List call names no namespace
\* (lines 401-403), so an Endpoints object of another namespace with the
\* label is in the list too, before or after the Gateway's own.
EndpointsLists ==
    {<<>>} \cup
    {<<[namespace |-> ns[1], subsets |-> <<[addresses |-> <<[hasTargetRef |-> TRUE]>>]>>],
       [namespace |-> ns[2], subsets |-> <<[addresses |-> <<[hasTargetRef |-> TRUE]>>]>>]>> :
        ns \in {<<GwNamespace, "b">>, <<"b", GwNamespace>>}} \cup
    {<<[namespace |-> GwNamespace,
        subsets |-> [k \in 1..n |->
                        IF k = 1 THEN [addresses |-> first]
                        ELSE [addresses |-> <<[hasTargetRef |-> TRUE]>>]]]>> :
        n \in 1..MaxSubsets, first \in SeqsUpTo(EndpointAddresses, MaxAddresses)} \cup
    {<<[namespace |-> GwNamespace, subsets |-> <<>>]>>}

Ingresses ==
    {<<>>,
     <<[ip |-> "ip1", hostname |-> ""]>>,
     <<[ip |-> "ip1", hostname |-> "h1"]>>}

\* The Services the label selector returns (lines 417-421), those of other
\* namespaces included.
ServiceLists ==
    {<<>>} \cup {<<[namespace |-> GwNamespace, ingress |-> ing]>> : ing \in Ingresses}
    \cup {<<[namespace |-> ns[1], ingress |-> <<[ip |-> "ip1", hostname |-> ""]>>],
             [namespace |-> ns[2], ingress |-> <<[ip |-> "ip1", hostname |-> ""]>>]>> :
              ns \in {<<GwNamespace, "b">>, <<"b", GwNamespace>>}}

\* No route, grant or Service is part of the scenario.
NoCluster ==
    /\ route = [exists |-> FALSE]
    /\ grants = <<>>
    /\ services = {}
    /\ config = <<>>
    /\ clean = [gateway |-> FALSE, class |-> FALSE, route |-> FALSE]

\* isReferenceAllowed has not been called.
NoCall ==
    /\ call = [called |-> FALSE]
    /\ allowed = FALSE

\* No function is called on its own.
NoFunction ==
    /\ args = [fn |-> "none", called |-> FALSE]
    /\ ret = NIL

\* The work queue of the route controllers is not modelled.
NoQueues ==
    /\ routeQueued = FALSE
    /\ layer4Servers = <<>>
    /\ updates = 0

(***************************************************************************)
(* GatewayReconciler.Reconcile, internal/controller/gateway.go             *)
(***************************************************************************)

NoTask == [st |-> "none", out |-> "none"]

Failures == {"connerr", "rejected"}

\* client.Get of the Gateway returned NotFound (line 167-171).
GatewayNotFound(g) == ~g.exists

IsBeingDeletedIgnored(g) == FALSE

\* original.GetDeletionTimestamp() != nil (line 178).
IsBeingDeleted(g) == g.deleting

\* The GatewayClass's Accepted condition is present and True (line 211).
ClassAccepted(c) == ConditionHasStatus(c.status.conditions, "Accepted", "True")

\* r.updateStatus(ctx, original, new): the status written, and whether
\* Status().Update is called at all (lines 666-673).
NeedsStatusUpdate(original, new) == ~GatewayStatusEqual(original.status, new.status)

\* getEndpoints (lines 399-410): the first item of the label-selected list.
HasEndpoints(list) == Len(list) > 0

\* setAddressStatus (lines 416-448): the reason it fails with, or "" when the
\* address status resolves.
AddressStatusReason(list) ==
    IF Len(list) = 0 THEN "NoResources"
    ELSE IF Len(list[1].ingress) = 0 THEN "AddressNotAssigned"
    ELSE ""

RECURSIVE StatusAddresses(_)
StatusAddresses(ingress) ==
    IF ingress = <<>> THEN <<>>
    ELSE LET s == Head(ingress)
             ipPart == IF s.ip # "" THEN <<[type |-> "IPAddress", value |-> s.ip]>>
                       ELSE <<>>
             hostPart == IF s.hostname # ""
                         THEN <<[type |-> "Hostname", value |-> s.hostname]>>
                         ELSE <<>>
         IN  ipPart \o hostPart \o StatusAddresses(Tail(ingress))

\* The loop body's guard: an address without TargetRef is skipped (line 317).
ShouldProgram(a) == a.hasTargetRef

WaitReturnsWithoutJoin(counter) == TRUE

\* wg.Wait() returns (line 360).
WaitReturns(counter) == counter = 0

ProgramFailurePropagates(tasks) ==
    \E k \in DOMAIN tasks : tasks[k].out \in {"connerr", "rejected"}

\* What a programmer goroutine's failure contributes to Reconcile's result:
\* nothing, it is logged and the goroutine returns (lines 346-355).
ProgramFailureFailsReconcile(tasks) == FALSE

\* Lines 362-377: the Gateway with its addresses and its Programmed
\* condition, and whether Reconcile fails.
Programmed(g, list, tasks, t) ==
    LET reason == AddressStatusReason(list)
        failed == reason # "" \/ ProgramFailureFailsReconcile(tasks)
        withAddrs ==
            IF reason = ""
            THEN [g EXCEPT !.status.addresses = StatusAddresses(list[1].ingress)]
            ELSE g
        programmed ==
            IF failed
            THEN Condition("Programmed", "False",
                           IF reason = "" THEN "Invalid" ELSE reason,
                           "Address is not ready")
            ELSE Condition("Programmed", "True", "Programmed",
                           "Gateway has been programmed")
    IN  [gateway |-> [withAddrs EXCEPT !.status.conditions =
                         SetStatusCondition(@, programmed, t)],
         failed |-> failed]

\* Reconcile returns: the stored Gateway after the status write (if any), the
\* result, and the events the return and the write put into the work queue.
\* A returned error is requeued by the runtime; a status write that changes
\* the Gateway is an update event of the Gateway itself (For(&Gateway{})).
Return(res, new, write, pending) ==
    /\ pc' = "idle"
    /\ result' = res
    /\ gw' = IF write THEN [gw EXCEPT !.status = new.status] ELSE gw
    /\ statusWrites' = IF write THEN 1 ELSE 0
    /\ queued' = (pending \/ res = "err" \/ (write /\ new.status # gw.status))
    /\ gwNew' = new

\* An event of a watched object that maps to the Gateway key.
ExternalEvent ==
    /\ ~queued
    /\ queued' = TRUE
    /\ UNCHANGED <<now, gwc, gw, epsList, svcList, configFails, pc, gwNew, addrs,
                   idx, wg, task, attempts, statusWrites, result, failedBefore>>
    /\ UNCHANGED <<clusterVars, grantVars, functionVars, queueVars>>

\* tls.certificateRefs of the Gateway's HTTPS listener: for each reference
\* whether it names a Secret and whether reading that Secret succeeds.
CertificateRefs ==
    {<<>>,
     <<[isSecret |-> TRUE, readable |-> FALSE]>>,
     <<[isSecret |-> FALSE, readable |-> FALSE]>>,
     <<[isSecret |-> TRUE, readable |-> TRUE], [isSecret |-> TRUE, readable |-> FALSE]>>}

SecretReadErrorSkipped(refs) == FALSE

\* Whether Input.Config returns the error of a Secret read: getCertKeyPEMPair
\* returns the error of Client.Get for a Secret reference (tls.go lines 20-37)
\* and getHTTPServer returns it (tls.go lines 592-597).
SecretReadFails(refs) ==
    \E k \in DOMAIN refs : refs[k].isSecret /\ ~refs[k].readable

\* Lines 162-309: from the start of Reconcile to the fan-out loop.
GwBegin ==
    /\ pc = "idle"
    /\ queued
    /\ failedBefore' = {k \in DOMAIN task : task[k].out \in Failures}
    /\ UNCHANGED <<now, gwc, epsList, svcList, configFails>>
    /\ UNCHANGED <<clusterVars, grantVars, functionVars, queueVars>>
    /\ LET accepted ==
               [gw EXCEPT !.status.conditions =
                   SetStatusCondition(@, Condition("Accepted", "True", "Accepted",
                                                   "Gateway scheduled"), now)]
           invalid ==
               [gw EXCEPT !.status.conditions =
                   SetStatusCondition(@, Condition("Accepted", "False", "Invalid",
                                                   "GatewayClass does not exist"), now)]
       IN
       IF GatewayNotFound(gw) \/ IsBeingDeleted(gw)
       THEN /\ Return("nil", gw, FALSE, FALSE)
            /\ addrs' = <<>> /\ idx' = 1 /\ wg' = 0
            /\ task' = <<>> /\ attempts' = <<>>
       ELSE IF ~gwc.exists
       THEN /\ Return("err", invalid, NeedsStatusUpdate(gw, invalid), FALSE)
            /\ addrs' = <<>> /\ idx' = 1 /\ wg' = 0
            /\ task' = <<>> /\ attempts' = <<>>
       ELSE IF ~MatchesControllerName(gwc.controllerName) \/ ~ClassAccepted(gwc)
       THEN /\ Return("nil", gw, FALSE, FALSE)
            /\ addrs' = <<>> /\ idx' = 1 /\ wg' = 0
            /\ task' = <<>> /\ attempts' = <<>>
       ELSE IF configFails \/ SecretReadFails(gw.certificateRefs)
                 \/ ~HasEndpoints(epsList)
                 \/ Len(epsList[1].subsets) < 1
       THEN /\ Return("err", accepted, FALSE, FALSE)
            /\ addrs' = <<>> /\ idx' = 1 /\ wg' = 0
            /\ task' = <<>> /\ attempts' = <<>>
       ELSE /\ pc' = "fanout"
            /\ queued' = FALSE
            /\ result' = "none"
            /\ statusWrites' = 0
            /\ gwNew' = accepted
            /\ addrs' = epsList[1].subsets[1].addresses
            /\ idx' = 1
            /\ wg' = 0
            /\ task' = [k \in 1..Len(epsList[1].subsets[1].addresses) |-> NoTask]
            /\ attempts' = [k \in 1..Len(epsList[1].subsets[1].addresses) |-> 0]
            /\ gw' = gw

\* Lines 313-359: one iteration of the loop over the first subset's addresses.
GwSpawn ==
    /\ pc = "fanout"
    /\ idx <= Len(addrs)
    /\ idx' = idx + 1
    /\ wg' = IF ShouldProgram(addrs[idx]) THEN wg + 1 ELSE wg
    /\ task' = IF ShouldProgram(addrs[idx])
               THEN [task EXCEPT ![idx] = [st |-> "running", out |-> "none"]]
               ELSE task
    /\ UNCHANGED <<now, gwc, gw, epsList, svcList, configFails, queued, pc, gwNew,
                   addrs, attempts, statusWrites, result, failedBefore>>
    /\ UNCHANGED <<clusterVars, grantVars, functionVars, queueVars>>

\* Lines 330-357: the goroutine builds the request and r.httpClient.Do sends
\* it; the admin endpoint answers 200, answers another status, or the
\* connection fails.
TaskPost(k) ==
    /\ task[k].st = "running"
    /\ \E out \in {"ok"} \cup Failures :
           task' = [task EXCEPT ![k] = [st |-> "posted", out |-> out]]
    /\ attempts' = [attempts EXCEPT ![k] = @ + 1]
    /\ UNCHANGED <<now, gwc, gw, epsList, svcList, configFails, queued, pc, gwNew,
                   addrs, idx, wg, statusWrites, result, failedBefore>>
    /\ UNCHANGED <<clusterVars, grantVars, functionVars, queueVars>>

\* The goroutine logs the outcome and returns; the deferred wg.Done() runs.
TaskReturn(k) ==
    /\ task[k].st = "posted"
    /\ task' = [task EXCEPT ![k].st = "done"]
    /\ wg' = wg - 1
    /\ UNCHANGED <<now, gwc, gw, epsList, svcList, configFails, queued, pc, gwNew,
                   addrs, idx, attempts, statusWrites, result, failedBefore>>
    /\ UNCHANGED <<clusterVars, grantVars, functionVars, queueVars>>

\* Lines 360-383: wg.Wait() returns, the address status and the Programmed
\* condition are set, the status is written and Reconcile returns.
GwFinish ==
    /\ pc = "fanout"
    /\ idx > Len(addrs)
    /\ WaitReturns(wg)
    /\ LET done == Programmed(gwNew, svcList, task, now) IN
       Return(IF done.failed THEN "err" ELSE "nil", done.gateway,
              NeedsStatusUpdate(gw, done.gateway), queued)
    /\ UNCHANGED <<now, gwc, epsList, svcList, configFails, addrs, idx, wg, task,
                   attempts, failedBefore>>
    /\ UNCHANGED <<clusterVars, grantVars, functionVars, queueVars>>

InitProgram ==
    /\ now = 1
    /\ \E exists \in BOOLEAN, deleting \in BOOLEAN, refs \in CertificateRefs :
           /\ (deleting => exists)
           /\ gw = [exists |-> exists, deleting |-> deleting,
                    namespace |-> GwNamespace, name |-> GwName,
                    certificateRefs |-> refs,
                    status |-> EmptyGatewayStatus]
    /\ \/ gwc = [exists |-> FALSE, controllerName |-> ControllerName,
                 status |-> [conditions |-> <<>>]]
       \/ \E cn \in ClassControllers, cs \in ClassConditions :
              gwc = [exists |-> TRUE, controllerName |-> cn,
                     status |-> [conditions |-> cs]]
    /\ epsList \in EndpointsLists
    /\ svcList \in ServiceLists
    /\ configFails \in BOOLEAN
    /\ (gw.certificateRefs # <<>> => ~configFails)
    /\ queued = TRUE
    /\ pc = "idle"
    /\ gwNew = gw
    /\ addrs = <<>>
    /\ idx = 1
    /\ wg = 0
    /\ task = <<>>
    /\ attempts = <<>>
    /\ statusWrites = 0
    /\ result = "none"
    /\ failedBefore = {}
    /\ NoCluster
    /\ NoCall
    /\ NoQueues
    /\ NoFunction

NextProgram ==
    \/ ExternalEvent
    \/ GwBegin
    \/ GwSpawn
    \/ \E k \in 1..MaxAddresses : k \in DOMAIN task /\ TaskPost(k)
    \/ \E k \in 1..MaxAddresses : k \in DOMAIN task /\ TaskReturn(k)
    \/ GwFinish

SpecProgram == InitProgram /\ [][NextProgram]_vars

\* The controller's worker takes a queued key, and a started Reconcile and
\* its goroutines run to their end; nothing obliges the cluster to produce
\* events.
SpecProgramFair ==
    /\ SpecProgram
    /\ WF_vars(GwBegin)
    /\ WF_vars(GwSpawn)
    /\ WF_vars(\E k \in 1..MaxAddresses : k \in DOMAIN task /\ TaskPost(k))
    /\ WF_vars(\E k \in 1..MaxAddresses : k \in DOMAIN task /\ TaskReturn(k))
    /\ WF_vars(GwFinish)

(***************************************************************************)
(* Properties of the Gateway reconcile and its fan-out                     *)
(***************************************************************************)

\* A Reconcile has returned and none is running.
Returned == pc = "idle" /\ result # "none"

\* The inputs with which Reconcile reaches the fan-out loop.
FanOutInputs ==
    /\ gw.exists /\ ~gw.deleting
    /\ gwc.exists
    /\ MatchesControllerName(gwc.controllerName)
    /\ ClassAccepted(gwc)
    /\ ~configFails /\ ~SecretReadFails(gw.certificateRefs)
    /\ Len(epsList) > 0
    /\ Len(epsList[1].subsets) >= 1

FirstSubset == epsList[1].subsets[1].addresses

\* C4: in every interleaving, when the reconcile has returned each address of
\* the first subset with a target reference has received exactly one POST
\* (whatever the outcome of the other tasks) and each address without one has
\* received none, no address ever receives a second POST within one
\* reconcile, and the step that sets Programmed and returns is taken only when
\* every launched task has finished.
C4_FanOutJoined ==
    /\ [](/\ \A k \in DOMAIN attempts : attempts[k] <= 1
          /\ (Returned /\ FanOutInputs) =>
                 /\ DOMAIN attempts = DOMAIN FirstSubset
                 /\ \A k \in DOMAIN FirstSubset :
                        IF FirstSubset[k].hasTargetRef
                        THEN attempts[k] = 1 /\ task[k].st = "done"
                        ELSE attempts[k] = 0 /\ task[k].st = "none")
    /\ [][(pc = "fanout" /\ pc' = "idle") =>
              \A k \in DOMAIN task : task[k].st \in {"none", "done"}]_vars

\* Two targeted replicas, the first failed, the second programmed.
C4_Witness ==
    /\ Returned /\ FanOutInputs
    /\ Len(FirstSubset) = 2
    /\ \A k \in 1..2 : FirstSubset[k].hasTargetRef /\ attempts[k] = 1
    /\ task[1] = [st |-> "done", out |-> "connerr"]
    /\ task[2] = [st |-> "done", out |-> "ok"]
    /\ ConditionHasStatus(gw.status.conditions, "Programmed", "True")

\* C5: replica programming failures never fail the reconcile: whenever the
\* fan-out ran and the address status resolves, the reconcile returns success
\* and the stored Gateway has Programmed=True with reason Programmed, whatever
\* the outcomes of the replica tasks.
C5_FailuresDoNotFailReconcile ==
    (Returned /\ FanOutInputs /\ AddressStatusReason(svcList) = "") =>
        /\ result = "nil"
        /\ ConditionIs(gw.status.conditions, "Programmed", "True", "Programmed")

\* Every targeted replica failed, one by a connection error and one by a
\* rejected response, and the Gateway is Programmed=True.
C5_Witness ==
    /\ Returned /\ FanOutInputs /\ AddressStatusReason(svcList) = ""
    /\ Len(FirstSubset) = 2
    /\ task[1] = [st |-> "done", out |-> "rejected"]
    /\ task[2] = [st |-> "done", out |-> "connerr"]
    /\ result = "nil"
    /\ ConditionIs(gw.status.conditions, "Programmed", "True", "Programmed")

ZeroAddresses ==
    \A n \in DOMAIN epsList[1].subsets : epsList[1].subsets[n].addresses = <<>>

\* C7: with an accepted class and a config that builds, when no Endpoints
\* object carries the label or the selected one has zero addresses, the
\* reconcile programs no replica and leaves Programmed=False, reason
\* NoResources.
C7_NoEndpointsNoResources ==
    (/\ Returned
     /\ gw.exists /\ ~gw.deleting /\ gwc.exists
     /\ MatchesControllerName(gwc.controllerName) /\ ClassAccepted(gwc)
     /\ ~configFails /\ ~SecretReadFails(gw.certificateRefs)
     /\ (Len(epsList) = 0 \/ ZeroAddresses)) =>
        /\ \A k \in DOMAIN attempts : attempts[k] = 0
        /\ ConditionIs(gw.status.conditions, "Programmed", "False", "NoResources")

\* The cases in which Reconcile has nothing to do.
EarlyReturnCase ==
    \/ ~gw.exists
    \/ gw.deleting
    \/ gwc.exists /\ ~MatchesControllerName(gwc.controllerName)
    \/ gwc.exists /\ ~ClassAccepted(gwc)

\* C8: a reconcile of a Gateway that is missing, being deleted, of a class of
\* another controller or of a class that is not Accepted=True returns success,
\* starts no programmer task, and leaves the stored Gateway as it was, with no
\* status write and nothing requeued.
C8_EarlyReturnFrame ==
    [][(GwBegin /\ EarlyReturnCase) =>
           /\ pc' = "idle"
           /\ result' = "nil"
           /\ gw' = gw
           /\ statusWrites' = 0
           /\ task' = <<>> /\ attempts' = <<>> /\ wg' = 0
           /\ ~queued']_vars

\* An existing Gateway whose class is this controller's but not accepted has
\* been reconciled.
C8_Witness ==
    /\ Returned
    /\ gw.exists /\ ~gw.deleting
    /\ gwc.exists /\ MatchesControllerName(gwc.controllerName) /\ ~ClassAccepted(gwc)
    /\ result = "nil" /\ statusWrites = 0

(***************************************************************************)
(* Reference grants: isReferenceAllowed, internal/gateway.go               *)
(***************************************************************************)

MaxGrants == 1

GatewayGroup == "gateway.networking.k8s.io"

CoreGroup == ""

\* NamespaceDerefOr (lines 64-69): the namespace if it is set and not empty.
NamespaceDerefOr(ns, defaultNamespace) ==
    IF ns # NIL /\ ns # "" THEN ns ELSE defaultNamespace

\* The innermost loop (lines 100-105): some To entry matches group, kind and
\* name.
RECURSIVE AnyToMatches(_, _, _)
AnyToMatches(tos, name, toGVK) ==
    IF tos = <<>> THEN FALSE
    ELSE LET to == Head(tos) IN
         IF /\ to.group = toGVK.group
            /\ to.kind = toGVK.kind
            /\ (to.name = NIL \/ to.name = name)
         THEN TRUE
         ELSE AnyToMatches(Tail(tos), name, toGVK)

\* The loop over g.Spec.From (lines 97-107).
RECURSIVE AnyFromMatches(_, _, _, _, _)
AnyFromMatches(froms, tos, originatingNamespace, name, gvks) ==
    IF froms = <<>> THEN FALSE
    ELSE LET from == Head(froms) IN
         IF /\ from.group = gvks.from.group
            /\ from.kind = gvks.from.kind
            /\ from.namespace = originatingNamespace
            /\ AnyToMatches(tos, name, gvks.to)
         THEN TRUE
         ELSE AnyFromMatches(Tail(froms), tos, originatingNamespace, name, gvks)

GrantInAnyNamespace(g, ns) == TRUE

\* The grant is looked at only if it lives in the target namespace (line 95).
GrantInNamespace(g, ns) == g.namespace = ns

\* The loop over grants (lines 94-108).
RECURSIVE AnyGrantAllows(_, _, _, _, _)
AnyGrantAllows(gs, ns, originatingNamespace, name, gvks) ==
    IF gs = <<>> THEN FALSE
    ELSE LET g == Head(gs) IN
         IF /\ GrantInNamespace(g, ns)
            /\ AnyFromMatches(g.from, g.to, originatingNamespace, name, gvks)
         THEN TRUE
         ELSE AnyGrantAllows(Tail(gs), ns, originatingNamespace, name, gvks)

\* isReferenceAllowed (lines 88-111).
isReferenceAllowed(originatingNamespace, name, namespace, fromGVK, toGVK, gs) ==
    LET ns == NamespaceDerefOr(namespace, originatingNamespace) IN
    IF originatingNamespace = ns THEN TRUE
    ELSE AnyGrantAllows(gs, ns, originatingNamespace, name,
                        [from |-> fromGVK, to |-> toGVK])

Namespaces == {"a", "b"}

ServiceNames == {"s1", "s2"}

FromGVKs == {[group |-> GatewayGroup, kind |-> k] : k \in {"HTTPRoute", "TLSRoute"}}

ToGVKs == {[group |-> CoreGroup, kind |-> k] : k \in {"Service", "Secret"}}

\* Spec.From and Spec.To lists of a ReferenceGrant: empty, one entry, and two
\* entries of which the second is the matching one.
GrantFromLists ==
    LET f1 == [group |-> GatewayGroup, kind |-> "HTTPRoute", namespace |-> "a"]
        f2 == [group |-> GatewayGroup, kind |-> "HTTPRoute", namespace |-> "b"]
        f3 == [group |-> "x", kind |-> "HTTPRoute", namespace |-> "a"]
    IN  {<<>>, <<f1>>, <<f2>>, <<f3>>, <<f3, f1>>}

GrantToLists ==
    LET t1 == [group |-> CoreGroup, kind |-> "Service", name |-> NIL]
        t2 == [group |-> CoreGroup, kind |-> "Service", name |-> "s1"]
        t3 == [group |-> "x", kind |-> "Service", name |-> NIL]
    IN  {<<>>, <<t1>>, <<t2>>, <<t3>>, <<t3, t2>>}

ReferenceGrants ==
    [namespace : Namespaces, from : GrantFromLists, to : GrantToLists]

\* A ReferenceGrant is created.
CreateGrant ==
    /\ ~call.called
    /\ Len(grants) < MaxGrants
    /\ \E g \in ReferenceGrants : grants' = Append(grants, g)
    /\ UNCHANGED <<now, progVars, route, services, config, clean, grantVars, functionVars, queueVars>>

\* isReferenceAllowed is called, once, with the grants of the cluster.
CheckReference ==
    /\ ~call.called
    /\ \E on \in Namespaces, name \in ServiceNames,
          namespace \in {NIL, ""} \cup Namespaces,
          fromGVK \in FromGVKs, toGVK \in ToGVKs :
           /\ call' = [called |-> TRUE, originatingNamespace |-> on, name |-> name,
                       namespace |-> namespace, fromGVK |-> fromGVK, toGVK |-> toGVK]
           /\ allowed' = isReferenceAllowed(on, name, namespace, fromGVK, toGVK, grants)
    /\ UNCHANGED <<now, progVars, clusterVars, functionVars, queueVars>>

\* No Gateway is being reconciled.
NoProgram ==
    /\ gw = [exists |-> FALSE]
    /\ gwc = [exists |-> FALSE]
    /\ epsList = <<>>
    /\ svcList = <<>>
    /\ configFails = FALSE
    /\ queued = FALSE
    /\ pc = "idle"
    /\ gwNew = gw
    /\ addrs = <<>>
    /\ idx = 1
    /\ wg = 0
    /\ task = <<>>
    /\ attempts = <<>>
    /\ statusWrites = 0
    /\ result = "none"
    /\ failedBefore = {}

InitGrant ==
    /\ now = 1
    /\ NoProgram
    /\ NoCluster
    /\ NoCall
    /\ NoQueues
    /\ NoFunction

NextGrant ==
    \/ CreateGrant
    \/ CheckReference

SpecGrant == InitGrant /\ [][NextGrant]_vars

\* The target namespace of the last call.
CallTargetNamespace ==
    IF call.namespace = NIL \/ call.namespace = ""
    THEN call.originatingNamespace
    ELSE call.namespace

\* Grant g permits the last call: it has a from entry for the source group,
\* kind and namespace and a to entry for the target group and kind whose name
\* is unset or the target's name.
GrantPermitsCall(g) ==
    /\ \E i \in DOMAIN g.from :
           /\ g.from[i].group = call.fromGVK.group
           /\ g.from[i].kind = call.fromGVK.kind
           /\ g.from[i].namespace = call.originatingNamespace
    /\ \E j \in DOMAIN g.to :
           /\ g.to[j].group = call.toGVK.group
           /\ g.to[j].kind = call.toGVK.kind
           /\ g.to[j].name \in {NIL, call.name}

SelectGrants(gs, ns) == SelectSeq(gs, LAMBDA g : g.namespace = ns)

Chars == <<"*", ".", "a", "b", "x">>

CharRank(c) == CHOOSE k \in DOMAIN Chars : Chars[k] = c

\* s < t for strings, as slices.Sort compares them.
RECURSIVE StringLess(_, _)
StringLess(s, t) ==
    IF t = <<>> THEN FALSE
    ELSE IF s = <<>> THEN TRUE
    ELSE IF Head(s) = Head(t) THEN StringLess(Tail(s), Tail(t))
    ELSE CharRank(Head(s)) < CharRank(Head(t))

RECURSIVE InsertSorted(_, _)
InsertSorted(h, sorted) ==
    IF sorted = <<>> THEN <<h>>
    ELSE IF StringLess(Head(sorted), h) \/ Head(sorted) = h
         THEN <<Head(sorted)>> \o InsertSorted(h, Tail(sorted))
         ELSE <<h>> \o sorted

\* slices.Sort(hostnames)
RECURSIVE SortStrings(_)
SortStrings(hs) ==
    IF hs = <<>> THEN <<>> ELSE InsertSorted(Head(hs), SortStrings(Tail(hs)))

HasSuffix(s, suffix) ==
    /\ Len(s) >= Len(suffix)
    /\ SubSeq(s, Len(s) - Len(suffix) + 1, Len(s)) = suffix

\* strings.TrimPrefix(s, prefix)
TrimPrefix(s, prefix) ==
    IF HasPrefix(s, prefix) THEN SubSeq(s, Len(prefix) + 1, Len(s)) ELSE s

\* strings.TrimSuffix(s, suffix)
TrimSuffix(s, suffix) ==
    IF HasSuffix(s, suffix) THEN SubSeq(s, 1, Len(s) - Len(suffix)) ELSE s

\* hostnameMatchesWildcardHostname (lines 168-175)
hostnameMatchesWildcardHostname(hostname, wildcardHostname) ==
    LET trimmed == TrimPrefix(wildcardHostname, <<"*">>) IN
    IF ~HasSuffix(hostname, trimmed) THEN FALSE
    ELSE Len(TrimSuffix(hostname, trimmed)) > 0

\* The loop of ComputeHosts (lines 134-158), before the sort.  An unset
\* listener hostname is the empty string.
RECURSIVE IntersectHosts(_, _)
IntersectHosts(routeHostnames, listenerHostname) ==
    IF routeHostnames = <<>> THEN <<>>
    ELSE LET routeHostname == Head(routeHostnames)
             rest == IntersectHosts(Tail(routeHostnames), listenerHostname)
         IN  IF Len(listenerHostname) = 0 THEN <<routeHostname>> \o rest
             ELSE IF listenerHostname = routeHostname THEN <<routeHostname>> \o rest
             ELSE IF HasPrefix(listenerHostname, <<"*">>)
                  THEN IF hostnameMatchesWildcardHostname(routeHostname, listenerHostname)
                       THEN <<routeHostname>> \o rest
                       ELSE rest
             ELSE IF HasPrefix(routeHostname, <<"*">>)
                  THEN IF hostnameMatchesWildcardHostname(listenerHostname, routeHostname)
                       THEN <<listenerHostname>> \o rest
                       ELSE rest
             ELSE rest

\* ComputeHosts answering [*] for a route without hostnames whatever the
\* listener hostname is.
ComputeHostsIgnoringListener(routeHostnames, listenerHostname) ==
    IF Len(routeHostnames) = 0
    THEN <<<<"*">>>>
    ELSE SortStrings(IntersectHosts(routeHostnames, listenerHostname))

\* ComputeHosts (lines 116-163)
ComputeHosts(routeHostnames, listenerHostname) ==
    IF Len(routeHostnames) = 0
    THEN IF Len(listenerHostname) > 0 THEN <<listenerHostname>> ELSE <<<<"*">>>>
    ELSE SortStrings(IntersectHosts(routeHostnames, listenerHostname))

(***************************************************************************)
(* Route status: internal/routechecks                                      *)
(***************************************************************************)

\* conditionChanged looking at the status alone, as meta.SetStatusCondition
\* does.
conditionChangedStatusOnly(a, b) == a.status # b.status

\* conditionChanged (routes.go lines 174-179)
conditionChanged(a, b) ==
    \/ a.status # b.status
    \/ a.reason # b.reason
    \/ a.message # b.message
    \/ a.observedGeneration # b.observedGeneration

\* merge (routes.go lines 149-172) for one update: the first condition of the
\* update's type is overwritten if it changed, else the update is appended.
merge(existingConditions, update) ==
    IF \E j \in DOMAIN existingConditions : existingConditions[j].type = update.type
    THEN LET j == CHOOSE i \in DOMAIN existingConditions :
                      /\ existingConditions[i].type = update.type
                      /\ \A m \in 1..(i - 1) : existingConditions[m].type # update.type
         IN  IF conditionChanged(existingConditions[j], update)
             THEN [existingConditions EXCEPT ![j] =
                      [type |-> existingConditions[j].type,
                       status |-> update.status,
                       reason |-> update.reason,
                       message |-> update.message,
                       observedGeneration |-> update.observedGeneration,
                       lastTransitionTime |-> update.lastTransitionTime]]
             ELSE existingConditions
    ELSE Append(existingConditions, update)

\* mergeStatusConditions (route_tls.go lines 189-206): the entry is found by
\* its parent reference alone; a new entry carries this controller's name.
mergeStatusConditions(parents, parentRef, update) ==
    IF \E i \in DOMAIN parents : parents[i].parentRef = parentRef
    THEN LET index == CHOOSE i \in DOMAIN parents :
                          /\ parents[i].parentRef = parentRef
                          /\ \A m \in 1..(i - 1) : parents[m].parentRef # parentRef
         IN  [parents EXCEPT ![index].conditions = merge(@, update)]
    ELSE Append(parents, [parentRef |-> parentRef,
                          controllerName |-> ControllerName,
                          conditions |-> <<update>>])

\* SetParentCondition (route_tls.go lines 167-175)
SetParentCondition(r, ref, condition, t) ==
    [r EXCEPT !.status.parents =
        mergeStatusConditions(@, ref, [condition EXCEPT !.lastTransitionTime = t,
                                                        !.observedGeneration = r.generation])]

\* SetAllParentCondition (route_tls.go lines 177-187), over the first n
\* parent references of the spec.
RECURSIVE SetParentConditionUpTo(_, _, _, _)
SetParentConditionUpTo(r, n, condition, t) ==
    IF n = 0 THEN r
    ELSE SetParentCondition(SetParentConditionUpTo(r, n - 1, condition, t),
                            r.parentRefs[n], condition, t)

SetAllParentCondition(r, condition, t) ==
    SetParentConditionUpTo(r, Len(r.parentRefs), condition, t)

HTTPRouteGVK == [group |-> GatewayGroup, kind |-> "HTTPRoute"]

ServiceGVK == [group |-> CoreGroup, kind |-> "Service"]

\* IsService (gateway.go lines 43-45)
IsService(be) ==
    /\ (be.group = NIL \/ be.group = CoreGroup)
    /\ (be.kind = NIL \/ be.kind = "Service")

\* IsBackendReferenceAllowed (gateway.go lines 81-86)
IsBackendReferenceAllowed(originatingNamespace, be, gvk, gs) ==
    IF IsService(be)
    THEN isReferenceAllowed(originatingNamespace, be.name, be.namespace, gvk,
                            ServiceGVK, gs)
    ELSE FALSE

\* HTTPRouteInput.GetRules with HTTPRouteRule.GetBackendRefs of each rule,
\* flattened in the order the checks visit them.
RECURSIVE BackendRefsOf(_)
BackendRefsOf(rules) ==
    IF rules = <<>> THEN <<>>
    ELSE Head(rules).backendRefs \o BackendRefsOf(Tail(rules))

\* The backend the reference is not permitted to point at.
RefNotPermitted(r, be, gs) ==
    /\ NamespaceDerefOr(be.namespace, r.namespace) # r.namespace
    /\ ~IsBackendReferenceAllowed(r.namespace, be, HTTPRouteGVK, gs)

\* CheckAgainstCrossNamespaceBackendReferences (routes.go lines 17-37):
\* the route after the check, and continueChecks.
RECURSIVE CrossNamespaceLoop(_, _, _, _)
CrossNamespaceLoop(r, bes, gs, t) ==
    IF bes = <<>> THEN r
    ELSE LET rest == CrossNamespaceLoop(r, SubSeq(bes, 1, Len(bes) - 1), gs, t) IN
         IF RefNotPermitted(r, bes[Len(bes)], gs)
         THEN SetAllParentCondition(rest,
                  Condition("ResolvedRefs", "False", "RefNotPermitted",
                            "Cross namespace references are not allowed"), t)
         ELSE rest

CheckAgainstCrossNamespaceBackendReferences(r, gs, t) ==
    [route |-> CrossNamespaceLoop(r, BackendRefsOf(r.rules), gs, t),
     continueChecks |-> \A k \in DOMAIN BackendRefsOf(r.rules) :
                            ~RefNotPermitted(r, BackendRefsOf(r.rules)[k], gs)]

\* CheckBackend (routes.go lines 39-68)
RECURSIVE BackendLoop(_, _, _)
BackendLoop(r, bes, t) ==
    IF bes = <<>> THEN r
    ELSE LET rest == BackendLoop(r, SubSeq(bes, 1, Len(bes) - 1), t)
             be == bes[Len(bes)]
         IN  IF ~IsService(be)
             THEN SetAllParentCondition(rest,
                      Condition("ResolvedRefs", "False", "InvalidKind",
                                "Unsupported backend kind"), t)
             ELSE IF be.port = 0
             THEN SetAllParentCondition(rest,
                      Condition("ResolvedRefs", "False", "InvalidKind",
                                "Must have port for backend object reference"), t)
             ELSE rest

CheckBackend(r, t) ==
    [route |-> BackendLoop(r, BackendRefsOf(r.rules), t),
     continueChecks |-> \A k \in DOMAIN BackendRefsOf(r.rules) :
                            /\ IsService(BackendRefsOf(r.rules)[k])
                            /\ BackendRefsOf(r.rules)[k].port # 0]

\* client.Get of the Service finds it.
ServiceExists(svcs, ns, name) ==
    \E svc \in svcs : svc.namespace = ns /\ svc.name = name

\* CheckBackendIsExistingService (routes.go lines 70-108)
RECURSIVE ExistingServiceLoop(_, _, _, _)
ExistingServiceLoop(r, bes, svcs, t) ==
    IF bes = <<>> THEN r
    ELSE LET rest == ExistingServiceLoop(r, SubSeq(bes, 1, Len(bes) - 1), svcs, t)
             be == bes[Len(bes)]
         IN  IF ~IsService(be)
             THEN SetAllParentCondition(rest,
                      Condition("ResolvedRefs", "False", "BackendNotFound",
                                "unsupported backend kind"), t)
             ELSE IF ~ServiceExists(svcs, NamespaceDerefOr(be.namespace, r.namespace),
                                    be.name)
             THEN SetAllParentCondition(rest,
                      Condition("ResolvedRefs", "False", "BackendNotFound",
                                "Service not found"), t)
             ELSE rest

CheckBackendIsExistingService(r, svcs, t) ==
    [route |-> ExistingServiceLoop(r, BackendRefsOf(r.rules), svcs, t),
     continueChecks |-> TRUE]

\* The element of a set of one element: the result of a step, computed
\* once before the next step reads it.
Only(S) == CHOOSE v \in S : TRUE

\* The loop over the rule checks (route_http.go lines 180-193): a check that
\* returns continueChecks = false ends it; c1 and c2 are the results of the
\* first and of the second check.
RuleChecks(r, gs, svcs, t) ==
    Only({IF ~c1.continueChecks THEN c1.route
          ELSE Only({IF ~c2.continueChecks THEN c2.route
                     ELSE CheckBackendIsExistingService(c2.route, svcs, t).route :
                        c2 \in {CheckBackend(c1.route, t)}}) :
             c1 \in {CheckAgainstCrossNamespaceBackendReferences(r, gs, t)}})

(***************************************************************************)
(* The per-parent Gateway checks of the route reconcilers                  *)
(* (the routechecks.CheckGatewayFunc list): namespace allowed, kind        *)
(* allowed, ports match, hostnames intersect, section matches, in this     *)
(* order; the first that fails overwrites the parent's Accepted condition  *)
(* and ends the checks of that parent.                                     *)
(***************************************************************************)

\* Allowed-namespace rule of one listener.
ListenerAllowsNamespace(g, l, routeNamespace) ==
    IF l.allowedRoutes.namespaces = NIL THEN routeNamespace = g.namespace
    ELSE IF l.allowedRoutes.namespaces = "All" THEN TRUE
    ELSE IF l.allowedRoutes.namespaces = "Same" THEN routeNamespace = g.namespace
    ELSE FALSE

\* Kind filter of one listener: allowedRoutes.kinds, if present, contains the kind.
ListenerAllowsKind(l, kind) ==
    \/ l.allowedRoutes.namespaces = NIL
    \/ l.allowedRoutes.kinds = <<>>
    \/ \E k \in DOMAIN l.allowedRoutes.kinds : l.allowedRoutes.kinds[k] = kind

\* computeHosts of the route checks (routes.go lines 181-190): the hosts of
\* all listeners of the Gateway, one after the other.
RECURSIVE computeHosts(_, _)
computeHosts(listeners, hostnames) ==
    IF listeners = <<>> THEN <<>>
    ELSE ComputeHosts(hostnames, Head(listeners).hostname)
             \o computeHosts(Tail(listeners), hostnames)

\* The reason of the first failing check, "" when all pass.  A check fails
\* only when no listener of the Gateway satisfies it.
CheckGatewayReason(r, g, ref) ==
    IF \A k \in DOMAIN g.listeners :
           ~ListenerAllowsNamespace(g, g.listeners[k], r.namespace)
    THEN "NotAllowedByListeners"
    ELSE IF \A k \in DOMAIN g.listeners : ~ListenerAllowsKind(g.listeners[k], "HTTPRoute")
    THEN "NotAllowedByListeners"
    ELSE IF ref.port # 0 /\ \A k \in DOMAIN g.listeners : g.listeners[k].port # ref.port
    THEN "NoMatchingParent"
    ELSE IF Len(computeHosts(g.listeners, r.hostnames)) = 0
    THEN "NoMatchingListenerHostname"
    ELSE IF ref.sectionName # NIL
            /\ \A k \in DOMAIN g.listeners : g.listeners[k].name # ref.sectionName
    THEN "NoMatchingParent"
    ELSE ""

CheckGateway(r, g, ref, t) ==
    IF CheckGatewayReason(r, g, ref) = "" THEN r
    ELSE SetParentCondition(r, ref,
             Condition("Accepted", "False", CheckGatewayReason(r, g, ref),
                       "HTTPRoute is not accepted by the Gateway"), t)

(***************************************************************************)
(* HTTPRouteReconciler.Reconcile, internal/controller/route_http.go        *)
(***************************************************************************)

\* The loop over route.Spec.ParentRefs (lines 148-178), up to the n-th.
RECURSIVE GatewayValidators(_, _, _, _)
GatewayValidators(r, g, n, t) ==
    IF n = 0 THEN r
    ELSE LET before == GatewayValidators(r, g, n - 1, t)
             parent == r.parentRefs[n]
             accepted == SetParentCondition(before, parent,
                             Condition("Accepted", "True", "Accepted",
                                       "Accepted HTTPRoute"), t)
             resolved == SetAllParentCondition(accepted,
                             Condition("ResolvedRefs", "True", "ResolvedRefs",
                                       "Service reference is valid"), t)
         IN  CheckGateway(resolved, g, parent, t)

\* The route as Reconcile leaves it before updateStatus (lines 130-193).
ValidatedRoute(r, g, gs, svcs, t) ==
    Only({RuleChecks(v, gs, svcs, t) :
             v \in {GatewayValidators(r, g, Len(r.parentRefs), t)}})

\* cmp.Equal of the route statuses with nothing ignored.
RouteStatusEqualExact(old, new) == old = new

\* cmp.Equal of the route statuses, ignoring LastTransitionTime (lines 273-282).
RouteStatusEqual(old, new) ==
    /\ Len(old.parents) = Len(new.parents)
    /\ \A k \in DOMAIN old.parents :
           /\ old.parents[k].parentRef = new.parents[k].parentRef
           /\ old.parents[k].controllerName = new.parents[k].controllerName
           /\ IgnoreLastTransitionTime(old.parents[k].conditions)
                  = IgnoreLastTransitionTime(new.parents[k].conditions)

(***************************************************************************)
(* Attachment: internal/controller/route.go, internal/caddy/caddy.go       *)
(***************************************************************************)

\* isAttachable (route.go lines 19-42)
isAttachable(g, r, parents) ==
    \E i \in DOMAIN parents :
        /\ NamespaceDerefOr(parents[i].parentRef.namespace, r.namespace) = g.namespace
        /\ parents[i].parentRef.name = g.name
        /\ \E c \in DOMAIN parents[i].conditions :
               \/ /\ parents[i].conditions[c].type = "Accepted"
                  /\ parents[i].conditions[c].status = "True"
               \/ /\ parents[i].conditions[c].type = "ResolvedRefs"
                  /\ parents[i].conditions[c].status = "False"

RouteKinds == {"HTTPRoute", "GRPCRoute", "TCPRoute", "TLSRoute", "UDPRoute"}

\* isKindAllowed (route.go lines 99-125): the first kind of the list that is
\* a route kind decides.
RECURSIVE KindLoop(_, _)
KindLoop(kinds, routeKind) ==
    IF kinds = <<>> THEN FALSE
    ELSE IF Head(kinds) \in RouteKinds THEN routeKind = Head(kinds)
    ELSE KindLoop(Tail(kinds), routeKind)

isKindAllowed(listener, routeKind) ==
    IF listener.allowedRoutes.kinds = <<>> THEN TRUE
    ELSE KindLoop(listener.allowedRoutes.kinds, routeKind)

\* metadata.labels of the Namespace objects of the cluster: one label each.
NamespaceLabel(ns) == IF ns = "a" THEN "y" ELSE "x"

\* The names of the Namespaces c.List returns for a label selector
\* (route.go lines 82-87).
NamespacesMatching(selector) == {ns \in {"a", "b"} : NamespaceLabel(ns) = selector}

\* isAllowed (route.go lines 61-97)
RECURSIVE isAllowedLoop(_, _, _, _)
isAllowedLoop(listeners, g, routeNamespace, routeKind) ==
    IF listeners = <<>> THEN FALSE
    ELSE LET listener == Head(listeners)
             next == isAllowedLoop(Tail(listeners), g, routeNamespace, routeKind)
         IN  IF listener.allowedRoutes.namespaces = NIL
             THEN routeNamespace = g.namespace
             ELSE IF ~isKindAllowed(listener, routeKind) THEN next
             ELSE IF listener.allowedRoutes.namespaces = "All" THEN TRUE
             ELSE IF /\ listener.allowedRoutes.namespaces = "Same"
                     /\ routeNamespace = g.namespace
                  THEN TRUE
             ELSE IF /\ listener.allowedRoutes.namespaces = "Selector"
                     /\ routeNamespace \in NamespacesMatching(listener.allowedRoutes.selector)
                  THEN TRUE
             ELSE next

isAllowed(g, r) == isAllowedLoop(g.listeners, g, r.namespace, "HTTPRoute")

\* filterHTTPRoutesByGateway (gateway.go lines 686-721)
filterHTTPRoutesByGateway(g, routes) ==
    SelectSeq(routes, LAMBDA r : isAttachable(g, r, r.status.parents) /\ isAllowed(g, r))

\* isRouteForListener (caddy.go lines 451-482)
isRouteForListener(g, l, rNS, parents) ==
    \E i \in DOMAIN parents :
        LET ref == parents[i].parentRef IN
        /\ MatchesControllerName(parents[i].controllerName)
        /\ (ref.group = NIL \/ ref.group = GatewayGroup)
        /\ (ref.kind = NIL \/ ref.kind = "Gateway")
        /\ NamespaceDerefOr(ref.namespace, rNS) = g.namespace
        /\ ref.name = g.name
        /\ \/ ref.sectionName = NIL /\ ref.port = 0
           \/ /\ (ref.sectionName = NIL \/ ref.sectionName = l.name)
              /\ (ref.port = 0 \/ ref.port = l.port)

(***************************************************************************)
(* Config synthesis: internal/caddy/caddy.go, internal/caddy/tls.go        *)
(***************************************************************************)

\* The handlers of the backendRefs of one rule (tls.go lines 401-536): a
\* reverse proxy for each Service reference with a port whose Service is in
\* i.Services.  i.Grants is not read.
RECURSIVE BackendHandlers(_, _, _)
BackendHandlers(bes, hr, svcs) ==
    IF bes = <<>> THEN <<>>
    ELSE LET bor == Head(bes)
             rest == BackendHandlers(Tail(bes), hr, svcs)
             ns == NamespaceDerefOr(bor.namespace, hr.namespace)
         IN  IF ~IsService(bor) \/ bor.port = 0 THEN rest
             ELSE IF ~ServiceExists(svcs, ns, bor.name) THEN rest
             ELSE LET service == CHOOSE svc \in svcs :
                                     svc.namespace = ns /\ svc.name = bor.name
                  IN  <<[handler |-> "reverse_proxy",
                         dial |-> <<service.clusterIP, bor.port>>]>> \o rest

\* The handlers of the rules of a route (tls.go lines 159-551); the rules
\* carry no matches and no filters, so each rule's handlers are appended as
\* they are.
RECURSIVE RuleHandlers(_, _, _)
RuleHandlers(rules, hr, svcs) ==
    IF rules = <<>> THEN <<>>
    ELSE BackendHandlers(Head(rules).backendRefs, hr, svcs)
             \o RuleHandlers(Tail(rules), hr, svcs)

\* The caddyhttp.Route a route contributes to the server of listener l
\* (tls.go lines 134-562), none if it has no handlers and no matchers.  The
\* fields route and listener record where the entry comes from.
HTTPRouteEntries(hr, l, svcs) ==
    LET matchers == IF Len(hr.hostnames) > 0 THEN <<[host |-> hr.hostnames]>> ELSE <<>>
        handlers == RuleHandlers(hr.rules, hr, svcs)
    IN  IF Len(handlers) = 0 /\ Len(matchers) = 0 THEN <<>>
        ELSE <<[route |-> <<hr.namespace, hr.name>>, listener |-> l.name,
                match |-> matchers, handle |-> handlers, terminal |-> FALSE]>>

\* getHTTPServer (tls.go lines 127-605): the routes appended to the server.
RECURSIVE getHTTPServerRoutes(_, _, _)
getHTTPServerRoutes(i, l, hrs) ==
    IF hrs = <<>> THEN <<>>
    ELSE (IF isRouteForListener(i.gateway, l, Head(hrs).namespace,
                                Head(hrs).status.parents)
          THEN HTTPRouteEntries(Head(hrs), l, i.services)
          ELSE <<>>)
         \o getHTTPServerRoutes(i, l, Tail(hrs))

\* handleHTTPListener (caddy.go lines 372-415): the server of the port is
\* created or extended.
handleHTTPListener(servers, i, l) ==
    IF \E k \in DOMAIN servers : servers[k].key = l.port
    THEN LET k == CHOOSE j \in DOMAIN servers : servers[j].key = l.port IN
         [servers EXCEPT ![k].routes = @ \o getHTTPServerRoutes(i, l, i.httpRoutes)]
    ELSE Append(servers, [key |-> l.port,
                          routes |-> getHTTPServerRoutes(i, l, i.httpRoutes)])

\* handleListener (caddy.go lines 350-370)
handleListener(servers, i, l) ==
    IF l.protocol = "HTTP" THEN handleHTTPListener(servers, i, l) ELSE servers

RECURSIVE handleListeners(_, _)
handleListeners(i, n) ==
    IF n = 0 THEN <<>>
    ELSE handleListener(handleListeners(i, n - 1), i, i.gateway.listeners[n])

\* The catch-all route every HTTP server ends with (caddy.go lines 307-322);
\* dial holds the body and the status code of the static response.
CatchAllRoute ==
    [route |-> <<"", "">>, listener |-> "", match |-> <<>>,
     handle |-> <<[handler |-> "static_response",
                   dial |-> <<"unable to route request\n", 421>>]>>,
     terminal |-> TRUE]

\* Input.Config with the catch-all route put before the routes of the
\* listeners.
ConfigCatchAllFirst(i) ==
    LET servers == handleListeners(i, Len(i.gateway.listeners)) IN
    [k \in DOMAIN servers |->
        [servers[k] EXCEPT !.routes = <<CatchAllRoute>> \o @]]

\* Input.Config (caddy.go lines 295-348): the HTTP servers of the config.
Config(i) ==
    LET servers == handleListeners(i, Len(i.gateway.listeners)) IN
    [k \in DOMAIN servers |->
        [servers[k] EXCEPT !.routes = Append(@, CatchAllRoute)]]

(***************************************************************************)
(* The cluster: one Gateway of this controller's class, one HTTPRoute, the *)
(* Services it may reference and the ReferenceGrant for its backend        *)
(***************************************************************************)

Listener(name, port, hostname, from, kinds) ==
    [name |-> name, port |-> port, protocol |-> "HTTP", hostname |-> hostname,
     allowedRoutes |-> [namespaces |-> from, kinds |-> kinds]]

HostAX == <<"a", ".", "x">>

HostBX == <<"b", ".", "x">>

HostX == <<"x">>

\* spec.listeners of the Gateway: a first listener l1 on port 80 and possibly
\* a second one, l2, on another or on the same port.
GatewayListeners ==
    LET firsts == {Listener("l1", 80, <<>>, NIL, <<>>),
                   Listener("l1", 80, HostAX, "All", <<>>),
                   Listener("l1", 80, HostAX, "Same", <<"TCPRoute", "HTTPRoute">>)}
        seconds == {<<>>,
                    <<Listener("l2", 8080, HostBX, "All", <<>>)>>,
                    <<Listener("l2", 80, <<>>, "Same", <<"HTTPRoute">>)>>}
    IN  {<<l>> \o rest : l \in firsts, rest \in seconds}

ParentRef(namespace, sectionName) ==
    [group |-> NIL, kind |-> NIL, namespace |-> namespace, name |-> GwName,
     sectionName |-> sectionName, port |-> 0]

BackendRef(namespace) ==
    [group |-> NIL, kind |-> NIL, namespace |-> namespace, name |-> "s1", port |-> 80]

OtherNamespace(ns) == IF ns = "a" THEN "b" ELSE "a"

\* The HTTPRoute: in the Gateway's namespace or in the other one, every
\* parent reference naming the Gateway, one rule with no backend, a backend
\* in the route's namespace or a backend in the other namespace.
HTTPRoutes ==
    {[exists |-> TRUE, namespace |-> ns, name |-> "r", generation |-> 1,
      hostnames |-> hostnames,
      parentRefs |-> [k \in DOMAIN sections |->
                         ParentRef(IF ns = GwNamespace THEN NIL ELSE GwNamespace,
                                   sections[k])],
      rules |-> <<[backendRefs |->
                      IF backend = "none" THEN <<>>
                      ELSE IF backend = "local" THEN <<BackendRef(NIL)>>
                      ELSE <<BackendRef(OtherNamespace(ns))>>]>>,
      status |-> [parents |-> <<>>]] :
        ns \in Namespaces,
        hostnames \in {<<>>, <<HostAX>>, <<HostBX>>},
        sections \in {<<NIL>>, <<"l1", "l2">>},
        backend \in {"none", "local", "cross"}}

AllServices ==
    {[namespace |-> "a", name |-> "s1", clusterIP |-> "10.0.0.1"],
     [namespace |-> "b", name |-> "s1", clusterIP |-> "10.0.0.2"]}

\* The route has a backend in another namespace.
HasCrossNamespaceBackend(r) ==
    \E k \in DOMAIN BackendRefsOf(r.rules) :
        NamespaceDerefOr(BackendRefsOf(r.rules)[k].namespace, r.namespace) # r.namespace

\* The ReferenceGrant in the other namespace that lets HTTPRoutes of the
\* route's namespace reference its Services.
BackendGrant(r) ==
    [namespace |-> OtherNamespace(r.namespace),
     from |-> <<[group |-> GatewayGroup, kind |-> "HTTPRoute",
                 namespace |-> r.namespace]>>,
     to |-> <<[group |-> CoreGroup, kind |-> "Service", name |-> NIL]>>]

\* The features GatewayClassReconciler reports (gateway_class.go lines
\* 149-171), in the order slices.Sort leaves them.
SupportedFeatures ==
    <<"Gateway", "HTTPRoute", "HTTPRouteMethodMatching", "HTTPRoutePathRedirect",
      "HTTPRoutePortRedirect", "HTTPRouteQueryParamMatching",
      "HTTPRouteResponseHeaderModification", "HTTPRouteSchemeRedirect",
      "ReferenceGrant">>

\* Whether GatewayClassReconciler.Reconcile calls Status().Update: it does
\* not compare the statuses (gateway_class.go lines 177-183).
GatewayClassNeedsStatusUpdate(old, new) == TRUE

\* GatewayClassReconciler.Reconcile (gateway_class.go lines 76-186)
GatewayClassReconcile ==
    /\ pc = "idle"
    /\ gwc.exists
    /\ LET accepted ==
               SetStatusCondition(gwc.status.conditions,
                   Condition("Accepted", "True", "Accepted", ""), now)
           supported ==
               SetStatusCondition(accepted,
                   Condition("SupportedVersion", "True", "SupportedVersion",
                             "Gateway API CRD bundle version v1.0.0 is supported."), now)
           new == [gwc EXCEPT !.status = [conditions |-> supported,
                                          supportedFeatures |-> SupportedFeatures]]
       IN  IF ~MatchesControllerName(gwc.controllerName)
           THEN /\ gwc' = gwc
                /\ statusWrites' = 0
           ELSE /\ gwc' = new
                /\ statusWrites' = IF GatewayClassNeedsStatusUpdate(gwc, new) THEN 1 ELSE 0
    /\ result' = "nil"
    /\ clean' = [clean EXCEPT !.class = TRUE,
                              !.gateway = IF gwc' = gwc THEN @ ELSE FALSE]
    /\ UNCHANGED <<now, gw, epsList, svcList, configFails, queued, pc, gwNew, addrs,
                   idx, wg, task, attempts, failedBefore>>
    /\ UNCHANGED <<route, grants, services, config, grantVars, functionVars, queueVars>>

\* HTTPRouteReconciler.Reconcile (route_http.go lines 112-202)
HTTPRouteReconcile ==
    /\ pc = "idle"
    /\ route.exists
    /\ LET new == ValidatedRoute(route, gw, grants, services, now)
           write == ~RouteStatusEqual(route.status, new.status)
       IN  /\ route' = IF write THEN [route EXCEPT !.status = new.status] ELSE route
           /\ statusWrites' = IF write THEN 1 ELSE 0
    /\ result' = "nil"
    /\ clean' = [clean EXCEPT !.route = TRUE,
                              !.gateway = IF route' = route THEN @ ELSE FALSE]
    /\ UNCHANGED <<now, gwc, gw, epsList, svcList, configFails, queued, pc, gwNew,
                   addrs, idx, wg, task, attempts, failedBefore>>
    /\ UNCHANGED <<grants, services, config, grantVars, functionVars, queueVars>>

\* caddy.Input of a Gateway reconcile (gateway.go lines 280-296)
Input(g) ==
    [gateway |-> g,
     httpRoutes |-> filterHTTPRoutesByGateway(g, IF route.exists THEN <<route>> ELSE <<>>),
     services |-> services]

\* GatewayReconciler.Reconcile (gateway.go lines 162-384) from its start to
\* its return, the Endpoints and the Service of the Gateway being in place:
\* the config is synthesized and posted to the replica, whose answer has no
\* part in what follows.
GatewayReconcile ==
    /\ pc = "idle"
    /\ gw.exists /\ ~gw.deleting /\ gwc.exists
    /\ HasEndpoints(epsList) /\ Len(epsList[1].subsets) >= 1
    /\ IF ~MatchesControllerName(gwc.controllerName) \/ ~ClassAccepted(gwc)
       THEN /\ UNCHANGED <<gw, config>>
            /\ statusWrites' = 0
            /\ result' = "nil"
       ELSE LET accepted ==
                    [gw EXCEPT !.status.conditions =
                        SetStatusCondition(@, Condition("Accepted", "True", "Accepted",
                                                        "Gateway scheduled"), now)]
                done == Programmed(accepted, svcList, <<>>, now)
                write == NeedsStatusUpdate(gw, done.gateway)
            IN  /\ config' = Config(Input(gw))
                /\ gw' = IF write THEN [gw EXCEPT !.status = done.gateway.status] ELSE gw
                /\ statusWrites' = IF write THEN 1 ELSE 0
                /\ result' = IF done.failed THEN "err" ELSE "nil"
    /\ clean' = [clean EXCEPT !.gateway = (result' = "nil")]
    /\ UNCHANGED <<now, gwc, epsList, svcList, configFails, queued, pc, gwNew, addrs,
                   idx, wg, task, attempts, failedBefore>>
    /\ UNCHANGED <<route, grants, services, grantVars, functionVars, queueVars>>

\* The ReferenceGrant for the route's cross-namespace backend is created.
GrantCreated ==
    /\ route.exists
    /\ HasCrossNamespaceBackend(route)
    /\ grants = <<>>
    /\ grants' = <<BackendGrant(route)>>
    /\ clean' = [clean EXCEPT !.route = FALSE, !.gateway = FALSE]
    /\ UNCHANGED <<now, progVars, route, services, config, grantVars, functionVars, queueVars>>

\* The ReferenceGrant is deleted.
GrantDeleted ==
    /\ grants # <<>>
    /\ grants' = <<>>
    /\ clean' = [clean EXCEPT !.route = FALSE, !.gateway = FALSE]
    /\ UNCHANGED <<now, progVars, route, services, config, grantVars, functionVars, queueVars>>

MaxGeneration == 2

\* The HTTPRoute's spec is edited: its hostnames are replaced, its first
\* parent reference is removed (the only one too), or both;
\* metadata.generation grows.
RouteEdited ==
    /\ route.exists
    /\ route.generation < MaxGeneration
    /\ \E hostnames \in {route.hostnames, <<HostX>>}, dropFirst \in BOOLEAN :
           /\ hostnames # route.hostnames \/ dropFirst
           /\ dropFirst => Len(route.parentRefs) >= 1
           /\ route' = [route EXCEPT !.generation = @ + 1,
                                     !.hostnames = hostnames,
                                     !.parentRefs = IF dropFirst THEN Tail(@) ELSE @]
    /\ clean' = [clean EXCEPT !.route = FALSE, !.gateway = FALSE]
    /\ UNCHANGED <<now, progVars, grants, services, config, grantVars, functionVars, queueVars>>

Init ==
    /\ now = 1
    /\ \E ls \in GatewayListeners :
           gw = [exists |-> TRUE, deleting |-> FALSE, namespace |-> GwNamespace,
                 name |-> GwName, listeners |-> ls, status |-> EmptyGatewayStatus]
    /\ gwc = [exists |-> TRUE, controllerName |-> ControllerName,
              status |-> [conditions |-> <<>>, supportedFeatures |-> <<>>]]
    /\ epsList = <<[namespace |-> GwNamespace,
                    subsets |-> <<[addresses |-> <<[hasTargetRef |-> TRUE]>>]>>]>>
    /\ svcList = <<[namespace |-> GwNamespace,
                    ingress |-> <<[ip |-> "ip1", hostname |-> ""]>>]>>
    /\ configFails = FALSE
    /\ queued = FALSE
    /\ pc = "idle"
    /\ gwNew = gw
    /\ addrs = <<>>
    /\ idx = 1
    /\ wg = 0
    /\ task = <<>>
    /\ attempts = <<>>
    /\ statusWrites = 0
    /\ result = "none"
    /\ failedBefore = {}
    /\ route \in HTTPRoutes
    /\ grants = <<>>
    /\ services \in {AllServices, {}}
    /\ config = <<>>
    /\ clean = [gateway |-> FALSE, class |-> FALSE, route |-> FALSE]
    /\ NoCall
    /\ NoQueues
    /\ NoFunction

Next ==
    \/ GatewayClassReconcile
    \/ HTTPRouteReconcile
    \/ GatewayReconcile
    \/ GrantCreated
    \/ GrantDeleted
    \/ RouteEdited

Spec == Init /\ [][Next]_vars

(***************************************************************************)
(* Claims on Spec                                                          *)
(***************************************************************************)

\* The caddyhttp routes of all servers of the synthesized config.
ConfigEntries ==
    UNION {{config[s].routes[e] : e \in DOMAIN config[s].routes} : s \in DOMAIN config}

\* The entries the HTTPRoute contributed.
RouteEntries == {e \in ConfigEntries : e.route = <<route.namespace, route.name>>}

\* The route reconciler and then the Gateway reconciler have run on the
\* cluster as it is now.
BothReconciled == clean.route /\ clean.gateway

\* A ReferenceGrant in the backend's namespace lets HTTPRoutes of the route's
\* namespace reference the Service be names.
GrantPermitsBackend(g, r, be) ==
    /\ g.namespace = be.namespace
    /\ \E f \in DOMAIN g.from :
           /\ g.from[f].group = GatewayGroup
           /\ g.from[f].kind = "HTTPRoute"
           /\ g.from[f].namespace = r.namespace
    /\ \E t \in DOMAIN g.to :
           /\ g.to[t].group = CoreGroup
           /\ g.to[t].kind = "Service"
           /\ (g.to[t].name = NIL \/ g.to[t].name = be.name)

\* The backend references of the route to another namespace that no
\* ReferenceGrant permits.
UngrantedBackends ==
    {be \in {BackendRefsOf(route.rules)[k] : k \in DOMAIN BackendRefsOf(route.rules)} :
        /\ be.namespace # NIL
        /\ be.namespace # route.namespace
        /\ \A g \in DOMAIN grants : ~GrantPermitsBackend(grants[g], route, be)}

\* The config has a reverse-proxy handler dialing the Service be names.
DialsBackend(be) ==
    \E e \in ConfigEntries, svc \in services :
        /\ svc.namespace = be.namespace
        /\ svc.name = be.name
        /\ \E h \in DOMAIN e.handle :
               /\ e.handle[h].handler = "reverse_proxy"
               /\ e.handle[h].dial = <<svc.clusterIP, be.port>>

\* C1: when the HTTPRoute has a backend reference to a Service of another
\* namespace that no ReferenceGrant permits, then after the route reconciler
\* and the Gateway reconciler have run every parent status of the route
\* carries ResolvedRefs=False/RefNotPermitted and the config has no
\* reverse-proxy handler dialing that Service.
C1_UngrantedBackendOmitted ==
    (route.exists /\ BothReconciled) =>
        \A be \in UngrantedBackends :
            /\ \A i \in DOMAIN route.status.parents :
                   ConditionIs(route.status.parents[i].conditions,
                               "ResolvedRefs", "False", "RefNotPermitted")
            /\ ~DialsBackend(be)

\* The parent status entry targets the Gateway.
TargetsGateway(entry) ==
    /\ NamespaceDerefOr(entry.parentRef.namespace, route.namespace) = gw.namespace
    /\ entry.parentRef.name = gw.name

\* The parent status entry has Accepted=True or ResolvedRefs=False.
AcceptedOrUnresolved(entry) ==
    \/ ConditionHasStatus(entry.conditions, "Accepted", "True")
    \/ ConditionHasStatus(entry.conditions, "ResolvedRefs", "False")

\* All attachment filters succeed for the route and listener l.
AttachmentFilters(l) ==
    /\ \E k \in DOMAIN route.parentRefs :
           /\ NamespaceDerefOr(route.parentRefs[k].namespace, route.namespace)
                  = gw.namespace
           /\ route.parentRefs[k].name = gw.name
    /\ \E i \in DOMAIN route.status.parents :
           /\ TargetsGateway(route.status.parents[i])
           /\ AcceptedOrUnresolved(route.status.parents[i])
    /\ ListenerAllowsNamespace(gw, l, route.namespace)
    /\ ListenerAllowsKind(l, "HTTPRoute")
    /\ Len(ComputeHosts(route.hostnames, l.hostname)) > 0

\* C2: if for each listener of the Gateway at least one attachment filter
\* fails for the route, the config synthesized for the Gateway has no
\* matcher and no handler derived from the route.
C2_UnattachedRouteLeavesNoTrace ==
    (route.exists /\ clean.gateway
         /\ \A k \in DOMAIN gw.listeners : ~AttachmentFilters(gw.listeners[k]))
        => RouteEntries = {}

\* C3: the route contributes to the server of listener L only if one and the
\* same parent status entry carries this controller's name, targets the
\* Gateway, has no sectionName and port contradicting L, and has
\* Accepted=True or ResolvedRefs=False.
C3_ContributionRestsOnOneEntry ==
    (route.exists /\ clean.gateway) =>
        \A e \in RouteEntries :
            \E k \in DOMAIN gw.listeners, i \in DOMAIN route.status.parents :
                LET l == gw.listeners[k]
                    entry == route.status.parents[i]
                IN  /\ l.name = e.listener
                    /\ MatchesControllerName(entry.controllerName)
                    /\ TargetsGateway(entry)
                    /\ (entry.parentRef.sectionName = NIL
                            \/ entry.parentRef.sectionName = l.name)
                    /\ (entry.parentRef.port = 0 \/ entry.parentRef.port = l.port)
                    /\ AcceptedOrUnresolved(entry)

\* C9: a reconciler run on an object whose inputs have not changed since its
\* previous successful reconcile performs no status write.
C9_UnchangedInputsNoStatusWrite ==
    [][/\ (GatewayReconcile /\ clean.gateway) => statusWrites' = 0
       /\ (GatewayClassReconcile /\ clean.class) => statusWrites' = 0
       /\ (HTTPRouteReconcile /\ clean.route) => statusWrites' = 0]_vars

(***************************************************************************)
(* Functions called on their own: SpecFunctions draws a function and its   *)
(* arguments and calls it once                                             *)
(***************************************************************************)

MaxListeners == 2

MaxKinds == 2

\* The state all function calls leave alone.
Uncalled == UNCHANGED <<now, progVars, clusterVars, grantVars, queueVars>>

\* spec.listeners[].allowedRoutes of the Gateway isAllowed is called with.
AllowedRoutes ==
    [namespaces : {NIL, "All", "Same", "Selector"}, selector : {"x"},
     kinds : {<<>>, <<"TCPRoute">>}]

isAllowedInputs ==
    [fn : {"isAllowed"}, called : {FALSE},
     listeners : SeqsUpTo([allowedRoutes : AllowedRoutes], MaxListeners) \ {<<>>},
     routeNamespace : Namespaces]

\* isAllowed (route.go lines 61-97) is called for an HTTPRoute.
CallIsAllowed ==
    /\ args.fn = "isAllowed" /\ ~args.called
    /\ args' = [args EXCEPT !.called = TRUE]
    /\ ret' = isAllowed([namespace |-> GwNamespace, listeners |-> args.listeners],
                        [namespace |-> args.routeNamespace])
    /\ Uncalled

isKindAllowedInputs ==
    [fn : {"isKindAllowed"}, called : {FALSE},
     kinds : SeqsUpTo({"HTTPRoute", "TCPRoute", "GRPCRoute"}, MaxKinds),
     routeKind : {"HTTPRoute", "TCPRoute"}]

\* isKindAllowed (route.go lines 99-125) is called.
CallIsKindAllowed ==
    /\ args.fn = "isKindAllowed" /\ ~args.called
    /\ args' = [args EXCEPT !.called = TRUE]
    /\ ret' = isKindAllowed([allowedRoutes |-> [kinds |-> args.kinds]], args.routeKind)
    /\ Uncalled

MaxHostnames == 2

\* Hostnames: literal ones and wildcards, one nested in the other.
Hostnames ==
    {HostX, HostAX, HostBX, <<"b", ".", "a", ".", "x">>, <<"*", ".", "x">>,
     <<"*", ".", "a", ".", "x">>}

ComputeHostsInputs ==
    [fn : {"ComputeHosts"}, called : {FALSE}, again : {FALSE}, first : {<<>>},
     routeHostnames : SeqsUpTo(Hostnames, MaxHostnames),
     listenerHostname : Hostnames \cup {<<>>}]

\* ComputeHosts (gateway.go lines 116-163) is called.
CallComputeHosts ==
    /\ args.fn = "ComputeHosts" /\ ~args.called
    /\ args' = [args EXCEPT !.called = TRUE]
    /\ ret' = ComputeHosts(args.routeHostnames, args.listenerHostname)
    /\ Uncalled

\* ComputeHosts is called on what it returned, with the same listener hostname.
CallComputeHostsAgain ==
    /\ args.fn = "ComputeHosts" /\ args.called /\ ~args.again
    /\ args' = [args EXCEPT !.again = TRUE, !.first = ret]
    /\ ret' = ComputeHosts(ret, args.listenerHostname)
    /\ Uncalled

\* The server Input.handleListener (caddy.go lines 350-370) hands the
\* listener to, and the key it is stored under: handleHTTPListener (line 373)
\* keys by the port, handleLayer4Listener (lines 418-422) by "tcp/" or
\* "udp/" and the port; app "none" when the listener is ignored.
ListenerServer(l) ==
    LET http == [app |-> "http", key |-> <<"", l.port>>]
        layer4 == [app |-> "layer4",
                   key |-> <<IF l.protocol = "UDP" THEN "udp/" ELSE "tcp/", l.port>>]
    IN  IF l.protocol = "HTTP" THEN http
        ELSE IF l.protocol = "HTTPS"
             THEN IF l.tlsMode # NIL /\ l.tlsMode # "Terminate"
                  THEN [app |-> "none", key |-> <<"", 0>>]
                  ELSE http
        ELSE IF l.protocol \in {"TLS", "TCP", "UDP"} THEN layer4
        ELSE [app |-> "none", key |-> <<"", 0>>]

handleListenerInputs ==
    [fn : {"handleListener"}, called : {FALSE},
     protocol : {"HTTP", "HTTPS", "TLS", "TCP", "UDP"},
     tlsMode : {NIL, "Terminate", "Passthrough"},
     port : {80, 443}]

\* Input.handleListener is called for a listener.
CallHandleListener ==
    /\ args.fn = "handleListener" /\ ~args.called
    /\ args' = [args EXCEPT !.called = TRUE]
    /\ ret' = ListenerServer(args)
    /\ Uncalled

\* The Location of a RequestRedirect filter (tls.go lines 207-266): its
\* scheme, its port and whether the port is written.  port is 0 when the
\* filter has none.
RedirectLocation(filterScheme, filterPort, listenerPort) ==
    LET scheme == IF filterScheme # NIL THEN filterScheme ELSE "{http.request.scheme}"
        port == IF filterScheme # NIL
                THEN IF filterPort # 0 THEN filterPort
                     ELSE IF scheme = "http" THEN 80
                     ELSE IF scheme = "https" THEN 443
                     ELSE listenerPort
                ELSE listenerPort
    IN  [scheme |-> scheme, port |-> port,
         portWritten |-> ~(\/ scheme = "http" /\ port = 80
                           \/ scheme = "https" /\ port = 443)]

RedirectInputs ==
    [fn : {"RequestRedirect"}, called : {FALSE},
     scheme : {NIL, "http", "https"},
     port : {0, 80, 443, 8080},
     listenerPort : {80, 443, 8080}]

\* getHTTPServer builds the Location of a RequestRedirect filter.
CallRedirectLocation ==
    /\ args.fn = "RequestRedirect" /\ ~args.called
    /\ args' = [args EXCEPT !.called = TRUE]
    /\ ret' = RedirectLocation(args.scheme, args.port, args.listenerPort)
    /\ Uncalled

\* The UpdateFunc of onlyStatusChanged (part_002 lines 66-125): for every
\* route kind, whether the statuses differ, LastTransitionTime ignored.
onlyStatusChanged(old, new) == ~RouteStatusEqual(old.status, new.status)

\* getReconcileRequestsForRoute (gateway.go lines 573-617): a request for
\* each parent that is a Gateway, exists and is of this controller's class;
\* existing is the set of names of such Gateways.
RECURSIVE getReconcileRequestsForRoute(_, _, _)
getReconcileRequestsForRoute(parentRefs, routeNamespace, existing) ==
    IF parentRefs = <<>> THEN <<>>
    ELSE LET parent == Head(parentRefs)
             rest == getReconcileRequestsForRoute(Tail(parentRefs), routeNamespace,
                                                  existing)
         IN  IF ~((parent.group = NIL \/ parent.group = GatewayGroup)
                    /\ (parent.kind = NIL \/ parent.kind = "Gateway"))
             THEN rest
             ELSE IF parent.name \notin existing THEN rest
             ELSE <<[namespace |-> NamespaceDerefOr(parent.namespace, routeNamespace),
                     name |-> parent.name]>> \o rest

\* The route before the update, and the updates: of the spec (a backend
\* port), of a status condition, of a LastTransitionTime only.
RouteUpdateInputs ==
    LET status(st, t) ==
            [parents |-> <<[parentRef |-> ParentRef(NIL, NIL),
                            controllerName |-> ControllerName,
                            conditions |-> <<[Condition("Accepted", st, "Accepted", "")
                                                 EXCEPT !.lastTransitionTime = t]>>]>>]
        object(names, port, st) ==
            [namespace |-> GwNamespace,
             parentRefs |-> [k \in DOMAIN names |->
                                [ParentRef(NIL, NIL) EXCEPT !.name = names[k]]],
             backendPort |-> port, status |-> st]
    IN  {[fn |-> "RouteUpdate", called |-> FALSE, kind |-> kind,
          old |-> object(names, 80, status("True", 1)),
          new |-> object(names, port, st)] :
            kind \in {"HTTPRoute", "TCPRoute", "TLSRoute", "UDPRoute"},
            names \in {<<GwName>>, <<"gx", GwName>>},
            port \in {80, 8080},
            st \in {status("True", 1), status("True", 2), status("False", 2)}}

\* The Gateway controller sees an update event of a route (gateway.go lines
\* 105-124): the requests its watch puts into the work queue.
CallRouteUpdate ==
    /\ args.fn = "RouteUpdate" /\ ~args.called
    /\ args' = [args EXCEPT !.called = TRUE]
    /\ ret' = IF onlyStatusChanged(args.old, args.new)
              THEN getReconcileRequestsForRoute(args.new.parentRefs,
                                                args.new.namespace, {GwName})
              ELSE <<>>
    /\ Uncalled

\* requiredGVKs and optionalGVKs (main.go lines 256-275).
GVK(group, version, kind) == [group |-> group, version |-> version, kind |-> kind]

requiredGVKs ==
    <<GVK(GatewayGroup, "v1", "GatewayClass"), GVK(GatewayGroup, "v1", "Gateway"),
      GVK(GatewayGroup, "v1", "HTTPRoute"), GVK(GatewayGroup, "v1beta1", "ReferenceGrant")>>

optionalGVKs ==
    <<GVK(GatewayGroup, "v1alpha3", "BackendTLSPolicy"),
      GVK(GatewayGroup, "v1alpha2", "TCPRoute"), GVK(GatewayGroup, "v1alpha2", "TLSRoute"),
      GVK(GatewayGroup, "v1alpha2", "UDPRoute")>>

\* checkCRDs (main.go lines 291-381): the CRDs of the Gateway API groups are
\* kept, each gives one present GVK with the FIRST of its versions, and every
\* required GVK that is not among them is joined into the error.
RECURSIVE JoinMissing(_, _)
JoinMissing(gvks, presentGVKs) ==
    IF gvks = <<>> THEN <<>>
    ELSE (IF Head(gvks) \in presentGVKs THEN <<>> ELSE <<Head(gvks)>>)
             \o JoinMissing(Tail(gvks), presentGVKs)

checkCRDs(listFails, crds) ==
    IF listFails THEN [info |-> NIL, err |-> "list", missing |-> <<>>]
    ELSE LET filteredCRDs == {crd \in crds : crd.group \in {GatewayGroup,
                                                  "gateway.networking.x-k8s.io"}}
             presentGVKs == {GVK(crd.group, crd.versions[1], crd.kind) :
                                 crd \in filteredCRDs}
             errs == JoinMissing(requiredGVKs, presentGVKs)
         IN  IF errs # <<>> THEN [info |-> NIL, err |-> "missing", missing |-> errs]
             ELSE [info |-> [resources |-> presentGVKs], err |-> NIL, missing |-> <<>>]

\* The CustomResourceDefinitions of a cluster: each required kind absent,
\* with the required version alone, or with an older version listed before
\* it; some optional kinds; a kind Gateway of another API group.
CRD(group, versions, kind) == [group |-> group, versions |-> versions, kind |-> kind]

InstalledAs(gvk) ==
    {{}, {CRD(gvk.group, <<gvk.version>>, gvk.kind)},
     {CRD(gvk.group, <<"v1alpha2", gvk.version>>, gvk.kind)}}

checkCRDsInputs ==
    {[fn |-> "checkCRDs", called |-> FALSE, listFails |-> listFails,
      crds |-> c1 \cup c2 \cup c3 \cup c4 \cup optional \cup foreign] :
        listFails \in BOOLEAN,
        c1 \in InstalledAs(requiredGVKs[1]), c2 \in InstalledAs(requiredGVKs[2]),
        c3 \in InstalledAs(requiredGVKs[3]), c4 \in InstalledAs(requiredGVKs[4]),
        optional \in {{}, {CRD(optionalGVKs[2].group, <<optionalGVKs[2].version>>,
                               optionalGVKs[2].kind)},
                      {CRD(optionalGVKs[k].group, <<optionalGVKs[k].version>>,
                           optionalGVKs[k].kind) : k \in DOMAIN optionalGVKs}},
        foreign \in {{}, {CRD("networking.istio.io", <<"v1">>, "Gateway")}}}

CallCheckCRDs ==
    /\ args.fn = "checkCRDs" /\ ~args.called
    /\ args' = [args EXCEPT !.called = TRUE]
    /\ ret' = checkCRDs(args.listFails, args.crds)
    /\ Uncalled

\* updateStatus of the Gateway, HTTPRoute and TCPRoute reconcilers
\* (gateway.go lines 666-673, route_http.go lines 273-282, route_tcp.go lines
\* 267-276): the number of Status().Update calls.
updateStatus(kind, original, new) ==
    IF kind = "Gateway"
    THEN (IF GatewayStatusEqual(original.status, new.status) THEN 0 ELSE 1)
    ELSE (IF RouteStatusEqual(original.status, new.status) THEN 0 ELSE 1)

\* The condition lists of the new status: the old one with any of its fields
\* changed, emptied, or with a second condition.
StatusConditions ==
    {<<>>,
     <<[Condition("Accepted", "True", "Accepted", "") EXCEPT !.lastTransitionTime = 1],
       [Condition("Programmed", "True", "Programmed", "") EXCEPT !.lastTransitionTime = 2]>>}
    \cup {<<[type |-> "Accepted", status |-> st, reason |-> reason, message |-> message,
             observedGeneration |-> og, lastTransitionTime |-> t]>> :
            st \in {"True", "False"}, reason \in {"Accepted", "NoMatchingParent"},
            message \in {"", "m"}, og \in {0, 1}, t \in {1, 2}}

updateStatusInputs ==
    LET status(kind, conds, address) ==
            IF kind = "Gateway"
            THEN [conditions |-> conds, addresses |-> address]
            ELSE [parents |-> <<[parentRef |-> ParentRef(NIL, IF address = <<>> THEN NIL
                                                            ELSE address[1]),
                                 controllerName |-> ControllerName,
                                 conditions |-> conds]>>]
        first == <<[Condition("Accepted", "True", "Accepted", "")
                       EXCEPT !.lastTransitionTime = 1]>>
    IN  {[fn |-> "updateStatus", called |-> FALSE, kind |-> kind,
          original |-> [status |-> status(kind, first, <<>>)],
          new |-> [status |-> status(kind, conds, address)]] :
            kind \in {"Gateway", "HTTPRoute", "TCPRoute"},
            conds \in StatusConditions,
            address \in {<<>>, <<"l1">>}}

CallUpdateStatus ==
    /\ args.fn = "updateStatus" /\ ~args.called
    /\ args' = [args EXCEPT !.called = TRUE]
    /\ ret' = updateStatus(args.kind, args.original, args.new)
    /\ Uncalled

MaxMerges == 3

\* The conditions SetParentCondition is called with: of two types, and for
\* each type a condition and the ones differing from it in one field.
MergedConditions ==
    LET base(type) == [Condition(type, "True", "Accepted", "") EXCEPT
                           !.observedGeneration = 1]
    IN  UNION {{base(type),
                [base(type) EXCEPT !.status = "False"],
                [base(type) EXCEPT !.reason = "NoMatchingParent"],
                [base(type) EXCEPT !.message = "m"],
                [base(type) EXCEPT !.observedGeneration = 2]} :
                    type \in {"Accepted", "ResolvedRefs"}}

mergeInputs ==
    {[fn |-> "merge", called |-> FALSE, merges |-> 0, parents |-> <<>>,
      update |-> Condition("Accepted", "True", "Accepted", "")]}

\* mergeStatusConditions is called on the parents of the previous call with a
\* condition whose LastTransitionTime is the time of the call (route_tls.go
\* lines 167-206); args.parents keeps the list the call was made on.
CallMerge ==
    /\ args.fn = "merge" /\ args.merges < MaxMerges
    /\ \E c \in MergedConditions :
           LET existing == IF args.merges = 0 THEN <<>> ELSE ret
               update == [c EXCEPT !.lastTransitionTime = args.merges + 1]
           IN  /\ args' = [args EXCEPT !.called = TRUE, !.merges = @ + 1,
                                       !.parents = existing, !.update = update]
               /\ ret' = mergeStatusConditions(existing, ParentRef(NIL, NIL), update)
    /\ Uncalled

\* caddyhttp.Match as far as the rule matchers fill it; Match.IsEmpty
\* (caddyhttp/matchers.go lines 31-75).
EmptyMatch == [path |-> <<>>, pathRE |-> "", header |-> <<>>, query |-> <<>>,
               method |-> <<>>]

IsEmpty(matcher) == matcher = EmptyMatch

\* getPathMatcher (part_003 lines 12-47); a path is [isNil, type, value],
\* value as a sequence of characters.
getPathMatcher(matcher, path) ==
    IF path.isNil THEN matcher
    ELSE IF path.value = <<>> THEN matcher
    ELSE IF path.value = <<"/">> /\ path.type = "PathPrefix" THEN matcher
    ELSE IF path.type = "Exact" THEN [matcher EXCEPT !.path = <<path.value>>]
    ELSE IF path.type = "PathPrefix"
         THEN [matcher EXCEPT !.path = <<path.value \o <<"*">> >>]
    ELSE [matcher EXCEPT !.pathRE = path.value]

\* getHeaderMatcher (part_003 lines 49-58): "TODO: implement".
getHeaderMatcher(matcher, v) == matcher

\* getQueryMatcher (part_003 lines 60-69): "TODO: implement".
getQueryMatcher(matcher, v) == matcher

\* getMethodMatcher (part_003 lines 71-79)
getMethodMatcher(matcher, method) ==
    IF method = NIL THEN matcher ELSE [matcher EXCEPT !.method = <<method>>]

\* The matcher of a rule (tls.go lines 159-183): one caddyhttp.Match filled
\* from every match of the rule in turn; the rule's handlers go into a
\* subroute guarded by it unless it is empty (tls.go lines 537-549).
RECURSIVE RuleMatcher(_, _)
RuleMatcher(matches, n) ==
    IF n = 0 THEN EmptyMatch
    ELSE LET m == matches[n]
             withPath == IF m.path.isNil THEN RuleMatcher(matches, n - 1)
                         ELSE getPathMatcher(RuleMatcher(matches, n - 1), m.path)
             withHeaders == getHeaderMatcher(withPath, m.headers)
             withQuery == getQueryMatcher(withHeaders, m.queryParams)
         IN  getMethodMatcher(withQuery, m.method)

MaxMatches == 2

\* rule.matches: up to MaxMatches matches, each with or without a path, a
\* header condition, a query-parameter condition and a method.
RuleMatcherInputs ==
    LET match == {[path |-> path, headers |-> headers, queryParams |-> query,
                   method |-> method] :
                     path \in {[isNil |-> TRUE, type |-> "", value |-> <<>>],
                               [isNil |-> FALSE, type |-> "PathPrefix",
                                value |-> <<"/">>],
                               [isNil |-> FALSE, type |-> "Exact",
                                value |-> <<"/", "p">>]},
                     headers \in {<<>>, <<[name |-> "h", value |-> "v"]>>},
                     query \in {<<>>, <<[name |-> "q", value |-> "1"]>>},
                     method \in {NIL, "GET"}}
    IN  {[fn |-> "RuleMatcher", called |-> FALSE, matches |-> matches] :
            matches \in SeqsUpTo(match, MaxMatches) \ {<<>>}}

CallRuleMatcher ==
    /\ args.fn = "RuleMatcher" /\ ~args.called
    /\ args' = [args EXCEPT !.called = TRUE]
    /\ ret' = LET matcher == RuleMatcher(args.matches, Len(args.matches))
              IN  [matcher |-> matcher, subroute |-> ~IsEmpty(matcher)]
    /\ Uncalled

\* getCertKeyPEMPair (tls.go lines 20-51) and the loop over the listener's
\* certificateRefs that calls it (tls.go lines 590-603): the pairs added to
\* i.loadPems, or the error of the Secret read.  i.Grants is not read ("TODO:
\* validate ReferenceGrant").
getCertKeyPEMPair(gatewayNamespace, ref, secrets) ==
    IF ~((ref.group = NIL \/ ref.group = CoreGroup)
           /\ (ref.kind = NIL \/ ref.kind = "Secret"))
    THEN [err |-> FALSE, loadPems |-> <<>>]
    ELSE LET ns == NamespaceDerefOr(ref.namespace, gatewayNamespace)
             found == {sec \in secrets : sec.namespace = ns /\ sec.name = ref.name}
         IN  IF found = {} THEN [err |-> TRUE, loadPems |-> <<>>]
             ELSE LET secret == CHOOSE sec \in found : TRUE IN
                  IF ~secret.hasCrt \/ ~secret.hasKey
                  THEN [err |-> FALSE, loadPems |-> <<>>]
                  ELSE [err |-> FALSE,
                        loadPems |-> <<[certificate |-> <<secret.namespace, secret.name>>,
                                        key |-> <<secret.namespace, secret.name>>]>>]

\* A certificateRef of a listener of Gateway a/gw, the Secrets of the cluster
\* and its ReferenceGrants: none, one in namespace b from Gateways of
\* namespace a to Secrets, one in namespace b from HTTPRoutes to Services.
getCertKeyPEMPairInputs ==
    LET grant(fromKind, toKind) ==
            [namespace |-> "b",
             from |-> <<[group |-> GatewayGroup, kind |-> fromKind,
                         namespace |-> GwNamespace]>>,
             to |-> <<[group |-> CoreGroup, kind |-> toKind, name |-> NIL]>>]
    IN  {[fn |-> "getCertKeyPEMPair", called |-> FALSE,
          ref |-> [group |-> NIL, kind |-> kind, namespace |-> ns, name |-> "c"],
          secrets |-> secrets, grants |-> gs] :
            kind \in {NIL, "Secret", "ConfigMap"},
            ns \in {NIL, "a", "b"},
            secrets \in {{}, {[namespace |-> n, name |-> "c", hasCrt |-> TRUE,
                               hasKey |-> TRUE] : n \in {"a", "b"}},
                         {[namespace |-> n, name |-> "c", hasCrt |-> TRUE,
                           hasKey |-> FALSE] : n \in {"a", "b"}}},
            gs \in {<<>>, <<grant("Gateway", "Secret")>>,
                    <<grant("HTTPRoute", "Service")>>}}

CallGetCertKeyPEMPair ==
    /\ args.fn = "getCertKeyPEMPair" /\ ~args.called
    /\ args' = [args EXCEPT !.called = TRUE]
    /\ ret' = getCertKeyPEMPair(GwNamespace, args.ref, args.secrets)
    /\ Uncalled

\* IsLocalPolicyTargetService (gateway.go lines 48-50)
IsLocalPolicyTargetService(tf) == tf.group = CoreGroup /\ tf.kind = "Service"

\* The BackendTLSPolicy chosen for a backend Service (tls.go lines 448-466):
\* the first of i.BackendTLSPolicies with a target reference that is a
\* Service of the Service's name; <<>> if there is none.
RECURSIVE SelectBackendTLSPolicy(_, _)
SelectBackendTLSPolicy(policies, service) ==
    IF policies = <<>> THEN <<>>
    ELSE IF \E k \in DOMAIN Head(policies).targetRefs :
                /\ IsLocalPolicyTargetService(Head(policies).targetRefs[k])
                /\ Head(policies).targetRefs[k].name = service.name
         THEN <<Head(policies)>>
         ELSE SelectBackendTLSPolicy(Tail(policies), service)

\* The transport of the reverse-proxy handler of the backend (tls.go lines
\* 468-510): TLS with the policy's hostname when a policy was chosen; the
\* field policy records which one.
BackendTransport(policies, service) ==
    LET chosen == SelectBackendTLSPolicy(policies, service) IN
    IF chosen = <<>> THEN [tls |-> FALSE, serverName |-> "", policy |-> <<"", "">>]
    ELSE [tls |-> TRUE, serverName |-> chosen[1].hostname,
          policy |-> <<chosen[1].namespace, chosen[1].name>>]

MaxPolicies == 2

\* The backend Service a/s1 and the BackendTLSPolicies of the cluster, each
\* in namespace a or b and targeting a Service s1, a Service s2 or a
\* ConfigMap s1 of its own namespace.
BackendTransportInputs ==
    LET policy == {[namespace |-> ns, name |-> "p", hostname |-> "h",
                    targetRefs |-> <<[group |-> CoreGroup, kind |-> t[1],
                                      name |-> t[2]]>>] :
                      ns \in {"a", "b"},
                      t \in {<<"Service", "s1">>, <<"Service", "s2">>,
                             <<"ConfigMap", "s1">>}}
    IN  {[fn |-> "BackendTransport", called |-> FALSE,
          service |-> [namespace |-> "a", name |-> "s1"], policies |-> ps] :
            ps \in SeqsUpTo(policy, MaxPolicies)}

CallBackendTransport ==
    /\ args.fn = "BackendTransport" /\ ~args.called
    /\ args' = [args EXCEPT !.called = TRUE]
    /\ ret' = BackendTransport(args.policies, args.service)
    /\ Uncalled

FunctionInputs ==
    isAllowedInputs \cup isKindAllowedInputs \cup ComputeHostsInputs
        \cup handleListenerInputs \cup RedirectInputs \cup RouteUpdateInputs
        \cup checkCRDsInputs \cup updateStatusInputs
        \cup mergeInputs \cup RuleMatcherInputs \cup getCertKeyPEMPairInputs
        \cup BackendTransportInputs

InitFunctions ==
    /\ now = 1
    /\ NoProgram
    /\ NoCluster
    /\ NoCall
    /\ NoQueues
    /\ args \in FunctionInputs
    /\ ret = NIL

NextFunctions ==
    \/ CallIsAllowed
    \/ CallIsKindAllowed
    \/ CallComputeHosts
    \/ CallComputeHostsAgain
    \/ CallHandleListener
    \/ CallRedirectLocation
    \/ CallRouteUpdate
    \/ CallCheckCRDs
    \/ CallUpdateStatus
    \/ CallMerge
    \/ CallRuleMatcher
    \/ CallGetCertKeyPEMPair
    \/ CallBackendTransport

SpecFunctions == InitFunctions /\ [][NextFunctions]_vars

\* C11: an HTTPRoute passes the allowed-namespace filter of the Gateway iff
\* at least one listener admits its namespace: allowedRoutes or namespaces
\* unset and From=Same admit the Gateway's namespace, From=All every
\* namespace, From=Selector the namespaces whose labels match; the order of
\* the listeners plays no part.  (Listeners with no kinds, so that the kind
\* filter admits the route everywhere.)
C11_NamespaceFilter ==
    (args.fn = "isAllowed" /\ args.called
         /\ \A k \in DOMAIN args.listeners : args.listeners[k].allowedRoutes.kinds = <<>>)
        => (ret <=> \E k \in DOMAIN args.listeners :
                        LET a == args.listeners[k].allowedRoutes IN
                        \/ a.namespaces \in {NIL, "Same"} /\ args.routeNamespace = GwNamespace
                        \/ a.namespaces = "All"
                        \/ /\ a.namespaces = "Selector"
                           /\ NamespaceLabel(args.routeNamespace) = a.selector)

\* C12: the kind filter admits a route on a listener iff allowedRoutes.kinds
\* is unset or contains the route's kind at any position.
C12_KindFilter ==
    (args.fn = "isKindAllowed" /\ args.called)
        => (ret <=> \/ args.kinds = <<>>
                    \/ \E k \in DOMAIN args.kinds : args.kinds[k] = args.routeKind)

\* C13: ComputeHosts returns [listener hostname], or [*] when there is none,
\* for a route without hostnames; otherwise, sorted ascending, exactly the
\* route hostnames for which the listener hostname is empty, equal, or a
\* wildcard they match with at least one extra label, together with the
\* listener hostname for each wildcard route hostname it matches in the same
\* way.
C13_HostnameIntersection ==
    (args.fn = "ComputeHosts" /\ args.called /\ ~args.again) =>
        LET l == args.listenerHostname
            R == args.routeHostnames
            IsWildcard(h) == Len(h) > 0 /\ Head(h) = "*"
            MatchesWildcard(h, w) ==
                /\ IsWildcard(w)
                /\ Len(h) > Len(w) - 1
                /\ SubSeq(h, Len(h) - Len(w) + 2, Len(h)) = Tail(w)
            expected ==
                {R[k] : k \in {j \in DOMAIN R :
                                  l = <<>> \/ l = R[j] \/ MatchesWildcard(R[j], l)}}
                \cup {h \in {l} : \E k \in DOMAIN R :
                                      IsWildcard(R[k]) /\ MatchesWildcard(l, R[k])}
        IN  IF R = <<>>
            THEN ret = IF l = <<>> THEN <<<<"*">>>> ELSE <<l>>
            ELSE /\ {ret[k] : k \in DOMAIN ret} = expected
                 /\ \A i, j \in DOMAIN ret : i < j => ~StringLess(ret[j], ret[i])

\* The call intersects one wildcard route hostname with a literal listener
\* hostname.
WildcardWithLiteral ==
    /\ args.fn = "ComputeHosts" /\ args.called /\ ~args.again
    /\ Len(args.routeHostnames) = 1
    /\ Head(args.routeHostnames[1]) = "*"
    /\ Len(args.listenerHostname) > 0
    /\ Head(args.listenerHostname) # "*"

\* C20 as stated: ComputeHosts([w], h) = ComputeHosts([h], w) for a wildcard
\* w and a literal h, and ComputeHosts called on its own output with the
\* same listener hostname returns that output, for every input.
C20_CommutativeIdempotent ==
    /\ WildcardWithLiteral =>
           ret = ComputeHosts(<<args.listenerHostname>>, args.routeHostnames[1])
    /\ (args.fn = "ComputeHosts" /\ args.again) => ret = args.first

\* C20 amended: the same, the second call being made on a non-empty output.
C20_CommutativeIdempotentNonEmpty ==
    /\ WildcardWithLiteral =>
           ret = ComputeHosts(<<args.listenerHostname>>, args.routeHostnames[1])
    /\ (args.fn = "ComputeHosts" /\ args.again /\ args.first # <<>>) => ret = args.first

\* ComputeHosts was called on the non-empty output of a call with a wildcard.
C20_Witness ==
    /\ args.fn = "ComputeHosts" /\ args.again
    /\ args.routeHostnames = <<<<"*", ".", "x">>>>
    /\ args.listenerHostname = HostAX
    /\ args.first = <<HostAX>>
    /\ ret = <<HostAX>>

\* C14: a listener is dispatched by protocol: HTTP, and HTTPS with TLS mode
\* Terminate or unset, to an HTTP server keyed "<port>"; HTTPS with mode
\* Passthrough, and TLS, to a Layer-4 server keyed "tls/<port>"; TCP to a
\* Layer-4 server keyed "tcp/<port>"; UDP to one keyed "udp/<port>".
C14_ListenerDispatch ==
    (args.fn = "handleListener" /\ args.called) =>
        ret = IF \/ args.protocol = "HTTP"
                 \/ args.protocol = "HTTPS" /\ args.tlsMode \in {NIL, "Terminate"}
              THEN [app |-> "http", key |-> <<"", args.port>>]
              ELSE IF args.protocol \in {"HTTPS", "TLS"}
                   THEN [app |-> "layer4", key |-> <<"tls/", args.port>>]
              ELSE IF args.protocol = "TCP"
                   THEN [app |-> "layer4", key |-> <<"tcp/", args.port>>]
              ELSE [app |-> "layer4", key |-> <<"udp/", args.port>>]

\* C15: the Location port of a RequestRedirect filter is the filter's port
\* when it has one, otherwise 80 for scheme http, 443 for scheme https and
\* the listener port in any other case; the port is left out of the Location
\* exactly when scheme and port are http/80 or https/443.
C15_RedirectPort ==
    (args.fn = "RequestRedirect" /\ args.called) =>
        LET port == IF args.port # 0 THEN args.port
                    ELSE IF args.scheme = "http" THEN 80
                    ELSE IF args.scheme = "https" THEN 443
                    ELSE args.listenerPort
        IN  /\ ret.port = port
            /\ ret.portWritten <=> ~(\/ args.scheme = "http" /\ port = 80
                                     \/ args.scheme = "https" /\ port = 443)

\* C16: when the reconcile reaches the address status and the labelled
\* Service is missing or its LoadBalancer status has no ingress, the
\* reconcile ends with Programmed=False, reason AddressNotAssigned;
\* otherwise the status addresses are one entry per ingress IP (IPAddress)
\* and one per ingress hostname (Hostname).
C16_AddressStatus ==
    (Returned /\ FanOutInputs) =>
        IF Len(svcList) = 0 \/ Len(svcList[1].ingress) = 0
        THEN ConditionIs(gw.status.conditions, "Programmed", "False",
                         "AddressNotAssigned")
        ELSE LET ing == svcList[1].ingress
                 a == gw.status.addresses
             IN  /\ {a[k] : k \in DOMAIN a} =
                        {[type |-> "IPAddress", value |-> ing[k].ip] :
                             k \in {j \in DOMAIN ing : ing[j].ip # ""}}
                        \cup {[type |-> "Hostname", value |-> ing[k].hostname] :
                                  k \in {j \in DOMAIN ing : ing[j].hostname # ""}}
                 /\ Len(a) = Cardinality({j \in DOMAIN ing : ing[j].ip # ""})
                             + Cardinality({j \in DOMAIN ing : ing[j].hostname # ""})

\* C17: if reading a Secret referenced by a listener's certificateRefs fails
\* when the config is synthesized, the reconcile returns an error, no replica
\* receives a configuration and no Gateway status is written.
C17_SecretReadFailsClosed ==
    (/\ Returned
     /\ gw.exists /\ ~gw.deleting /\ gwc.exists
     /\ MatchesControllerName(gwc.controllerName) /\ ClassAccepted(gwc)
     /\ \E k \in DOMAIN gw.certificateRefs :
            gw.certificateRefs[k].isSecret /\ ~gw.certificateRefs[k].readable) =>
        /\ result = "err"
        /\ \A k \in DOMAIN attempts : attempts[k] = 0
        /\ \A k \in DOMAIN task : task[k].st = "none"
        /\ statusWrites = 0
        /\ gw.status = EmptyGatewayStatus

\* The reconcile of a Gateway with an unreadable Secret and two replicas to
\* program has returned an error.
C17_Witness ==
    /\ Returned /\ result = "err"
    /\ gw.exists /\ ~gw.deleting /\ gwc.exists
    /\ MatchesControllerName(gwc.controllerName) /\ ClassAccepted(gwc)
    /\ gw.certificateRefs = <<[isSecret |-> TRUE, readable |-> TRUE],
                              [isSecret |-> TRUE, readable |-> FALSE]>>
    /\ HasEndpoints(epsList) /\ Len(epsList[1].subsets) >= 1
    /\ Len(epsList[1].subsets[1].addresses) = 2
    /\ statusWrites = 0

\* C18: for an update event of an HTTPRoute, TCPRoute, TLSRoute or UDPRoute
\* seen by the Gateway controller, an update that changes the route's spec
\* enqueues the Gateways the route names as parents, and an update that
\* changes only the route's status enqueues nothing.
C18_RouteUpdateEnqueues ==
    (args.fn = "RouteUpdate" /\ args.called) =>
        /\ args.new.backendPort # args.old.backendPort =>
               ret = <<[namespace |-> GwNamespace, name |-> GwName]>>
        /\ (args.new.backendPort = args.old.backendPort
                /\ args.new.status # args.old.status) => ret = <<>>

\* C19: the startup CRD check returns an error iff at least one required kind
\* (GatewayClass, Gateway, HTTPRoute, ReferenceGrant) is not installed in the
\* cluster, the error names every missing required kind, and the absence of
\* optional kinds never causes an error. Stated for a check that could list
\* the CustomResourceDefinitions.
C19_MissingRequiredKinds ==
    (args.fn = "checkCRDs" /\ args.called /\ ~args.listFails) =>
        LET required == {requiredGVKs[k].kind : k \in DOMAIN requiredGVKs}
            installed == {crd.kind : crd \in {c \in args.crds : c.group = GatewayGroup}}
            named == {ret.missing[k].kind : k \in DOMAIN ret.missing}
        IN  /\ ret.err # NIL <=> required \ installed # {}
            /\ named = required \ installed

\* C19 where every installed required kind lists the required version first:
\* the check is then as stated.
C19_FirstVersionRequired ==
    (args.fn = "checkCRDs" /\ args.called /\ ~args.listFails
        /\ \A crd \in args.crds : Len(crd.versions) = 1) =>
        LET required == {requiredGVKs[k].kind : k \in DOMAIN requiredGVKs}
            installed == {crd.kind : crd \in {c \in args.crds : c.group = GatewayGroup}}
            named == {ret.missing[k].kind : k \in DOMAIN ret.missing}
        IN  /\ ret.err # NIL <=> required \ installed # {}
            /\ named = required \ installed

(***************************************************************************)
(* Claims on the synthesized configuration and the status writers          *)
(***************************************************************************)

\* The routes the listeners on one port contribute, in listener order.
RECURSIVE ListenerRoutes(_, _, _)
ListenerRoutes(i, port, n) ==
    IF n = 0 THEN <<>>
    ELSE ListenerRoutes(i, port, n - 1)
             \o (IF i.gateway.listeners[n].port = port
                     /\ i.gateway.listeners[n].protocol = "HTTP"
                 THEN getHTTPServerRoutes(i, i.gateway.listeners[n], i.httpRoutes)
                 ELSE <<>>)

Returns421(entry) ==
    \E k \in DOMAIN entry.handle :
        entry.handle[k].handler = "static_response" /\ entry.handle[k].dial[2] = 421

ConditionsDiffer(old, new) ==
    \/ Len(old) # Len(new)
    \/ \E k \in DOMAIN old \cap DOMAIN new :
           \/ old[k].type # new[k].type
           \/ old[k].status # new[k].status
           \/ old[k].reason # new[k].reason
           \/ old[k].message # new[k].message
           \/ old[k].observedGeneration # new[k].observedGeneration

StatusDiffers(kind, old, new) ==
    IF kind = "Gateway"
    THEN ConditionsDiffer(old.conditions, new.conditions) \/ old.addresses # new.addresses
    ELSE \/ ConditionsDiffer(old.parents[1].conditions, new.parents[1].conditions)
         \/ old.parents[1].parentRef # new.parents[1].parentRef

\* C22: the Gateway and Route status writers issue a status write iff the old
\* and new status differ in something other than a condition's
\* LastTransitionTime: a difference only in LastTransitionTime yields no
\* write, and any other difference yields exactly one write.
C22_StatusWriteIffChanged ==
    (args.fn = "updateStatus" /\ args.called) =>
        ret = IF StatusDiffers(args.kind, args.original.status, args.new.status)
              THEN 1 ELSE 0

\* A writer was given a status that differs in a LastTransitionTime only, and
\* wrote nothing.
C22_Witness ==
    /\ args.fn = "updateStatus" /\ args.called
    /\ args.original.status # args.new.status
    /\ ~StatusDiffers(args.kind, args.original.status, args.new.status)
    /\ ret = 0

\* C23: merging a condition into a parent's condition list leaves every
\* existing condition of a different type unchanged, appends the condition
\* when none of its type exists, and for an existing condition of the same
\* type replaces it (refreshing lastTransitionTime) only when status, reason,
\* message or observedGeneration differs; after any sequence of merges the
\* list holds at most one condition per type.
C23_MergeByType ==
    (args.fn = "merge" /\ args.called) =>
        LET before == IF args.parents = <<>> THEN <<>> ELSE args.parents[1].conditions
            after == ret[1].conditions
            u == args.update
            differs(c) == \/ c.status # u.status
                          \/ c.reason # u.reason
                          \/ c.message # u.message
                          \/ c.observedGeneration # u.observedGeneration
        IN  /\ Len(ret) = 1
            /\ IF \A k \in DOMAIN before : before[k].type # u.type
               THEN after = Append(before, u)
               ELSE /\ DOMAIN after = DOMAIN before
                    /\ \A k \in DOMAIN before :
                           after[k] = IF before[k].type = u.type /\ differs(before[k])
                                      THEN u ELSE before[k]
            /\ \A k, m \in DOMAIN after : after[k].type = after[m].type => k = m

\* A third merge replaced the first of two conditions and refreshed its
\* lastTransitionTime.
C23_Witness ==
    /\ args.fn = "merge" /\ args.merges = 3
    /\ Len(ret[1].conditions) = 2
    /\ ret[1].conditions[1].lastTransitionTime = 3
    /\ ret[1].conditions[2] = args.parents[1].conditions[2]

\* C24: for every HTTPRoute rule match that specifies header or
\* query-parameter conditions, the sub-matcher emitted for that rule carries
\* those conditions as a key-to-values list, so the rule's handlers are
\* guarded by them.
C24_HeaderQueryMatchers ==
    (args.fn = "RuleMatcher" /\ args.called) =>
        \A k \in DOMAIN args.matches :
            /\ \A h \in DOMAIN args.matches[k].headers :
                   /\ ret.subroute
                   /\ \E e \in DOMAIN ret.matcher.header :
                          /\ ret.matcher.header[e].key = args.matches[k].headers[h].name
                          /\ args.matches[k].headers[h].value
                                 \in ret.matcher.header[e].values
            /\ \A q \in DOMAIN args.matches[k].queryParams :
                   /\ ret.subroute
                   /\ \E e \in DOMAIN ret.matcher.query :
                          /\ ret.matcher.query[e].key = args.matches[k].queryParams[q].name
                          /\ args.matches[k].queryParams[q].value
                                 \in ret.matcher.query[e].values

\* C25: after a parent reference to the Gateway is removed from the route's
\* spec and both the route and the Gateway have been reconciled again, the
\* route no longer has an accepted parent-status entry for the Gateway and
\* the configuration synthesized for the Gateway contains nothing derived
\* from the route.  Stated for a route left with no parent reference to the
\* Gateway.
C25_RemovedParentDetaches ==
    (/\ route.exists /\ BothReconciled
     /\ \A k \in DOMAIN route.parentRefs :
            ~(/\ NamespaceDerefOr(route.parentRefs[k].namespace, route.namespace)
                     = gw.namespace
              /\ route.parentRefs[k].name = gw.name)) =>
        /\ \A i \in DOMAIN route.status.parents :
               TargetsGateway(route.status.parents[i]) =>
                   ~ConditionHasStatus(route.status.parents[i].conditions,
                                       "Accepted", "True")
        /\ RouteEntries = {}

\* C26: the configuration synthesized for the Gateway (namespace N, name X)
\* is POSTed only to addresses of an Endpoints object located in namespace N,
\* and its address status is taken only from a Service in namespace N; an
\* Endpoints or Service object in another namespace that carries the
\* owning-gateway label with value X is never selected.  The reconcile posts
\* to the first subset of the first Endpoints object of the list and takes
\* the addresses from the first Service of the list.
C26_OwnNamespaceOnly ==
    (Returned /\ FanOutInputs) =>
        /\ (\E k \in DOMAIN attempts : attempts[k] > 0) =>
               epsList[1].namespace = gw.namespace
        /\ (AddressStatusReason(svcList) = "" /\ gw.status.addresses # <<>>) =>
               svcList[1].namespace = gw.namespace

\* C27: a listener certificateRef that names a Secret in a namespace other
\* than the Gateway's contributes a certificate/key pair to the synthesized
\* configuration only if a ReferenceGrant in the Secret's namespace permits
\* Gateways of the Gateway's namespace to reference that Secret.
C27_CrossNamespaceSecretNeedsGrant ==
    (/\ args.fn = "getCertKeyPEMPair" /\ args.called
     /\ NamespaceDerefOr(args.ref.namespace, GwNamespace) # GwNamespace
     /\ ret.loadPems # <<>>) =>
        \E k \in DOMAIN args.grants :
            LET g == args.grants[k] IN
            /\ g.namespace = args.ref.namespace
            /\ \E f \in DOMAIN g.from :
                   /\ g.from[f].group = GatewayGroup
                   /\ g.from[f].kind = "Gateway"
                   /\ g.from[f].namespace = GwNamespace
            /\ \E t \in DOMAIN g.to :
                   /\ g.to[t].group = CoreGroup
                   /\ g.to[t].kind = "Secret"
                   /\ (g.to[t].name = NIL \/ g.to[t].name = args.ref.name)

\* C28: a BackendTLSPolicy sets the upstream TLS transport of a reverse-proxy
\* handler only when the policy is in the same namespace as the backend
\* Service it names; a policy in another namespace that targets a Service of
\* the same name never changes that backend's transport.
C28_PolicyOfServiceNamespace ==
    (args.fn = "BackendTransport" /\ args.called) =>
        /\ ret.tls => ret.policy[1] = args.service.namespace
        /\ (\A k \in DOMAIN args.policies :
                args.policies[k].namespace # args.service.namespace) => ~ret.tls


(***************************************************************************)
(* The controllers and their work queues: the Gateway controller           *)
(* (gateway.go SetupWithManager) and the controller of the route's kind    *)
(* (route_http.go, route_udp.go), each taking its key from its queue.  A   *)
(* Reconcile is one step; the cluster changes only by the status updates   *)
(* of the reconcilers.                                                     *)
(***************************************************************************)

\* The latest reading of the clock.
MaxTime == 3

\* The kinds of the route of the cluster; main.go registers a reconciler for
\* both.
ControllerRouteKinds == {"HTTPRoute", "UDPRoute"}

UDPListener(name, port) ==
    [name |-> name, port |-> port, protocol |-> "UDP", hostname |-> <<>>,
     allowedRoutes |-> [namespaces |-> NIL, kinds |-> <<>>]]

\* filterUDPRoutesByGateway (gateway.go lines 761-769)
filterUDPRoutesByGateway(g, routes) ==
    SelectSeq(routes, LAMBDA r : /\ isAttachable(g, r, r.status.parents)
                                 /\ isAllowedLoop(g.listeners, g, r.namespace, "UDPRoute"))

\* The handlers of a UDPRoute (getUDPServer, lines 24-72): one proxy for each
\* rule with exactly one backend that is a Service of i.Services with a port.
RECURSIVE UDPHandlers(_, _, _)
UDPHandlers(rules, tr, svcs) ==
    IF rules = <<>> THEN <<>>
    ELSE LET rest == UDPHandlers(Tail(rules), tr, svcs)
             refs == Head(rules).backendRefs
         IN  IF Len(refs) # 1 THEN rest
             ELSE BackendHandlers(refs, tr, svcs) \o rest

\* getUDPServer (lines 17-85): a route for every UDPRoute of the listener,
\* with or without handlers.
RECURSIVE getUDPServerRoutes(_, _, _)
getUDPServerRoutes(i, l, trs) ==
    IF trs = <<>> THEN <<>>
    ELSE (IF isRouteForListener(i.gateway, l, Head(trs).namespace,
                                Head(trs).status.parents)
          THEN <<[route |-> <<Head(trs).namespace, Head(trs).name>>,
                  listener |-> l.name,
                  handle |-> UDPHandlers(Head(trs).rules, Head(trs), i.services)]>>
          ELSE <<>>)
         \o getUDPServerRoutes(i, l, Tail(trs))

\* handleLayer4Listener (caddy.go lines 417-449) for a UDP listener: the
\* server of the key udp/<port> is created or extended.
handleLayer4Listener(servers, i, l) ==
    IF l.protocol # "UDP" THEN servers
    ELSE IF \E k \in DOMAIN servers : servers[k].key = <<"udp/", l.port>>
    THEN LET k == CHOOSE j \in DOMAIN servers : servers[j].key = <<"udp/", l.port>> IN
         [servers EXCEPT ![k].routes = @ \o getUDPServerRoutes(i, l, i.udpRoutes)]
    ELSE Append(servers, [key |-> <<"udp/", l.port>>,
                          routes |-> getUDPServerRoutes(i, l, i.udpRoutes)])

RECURSIVE Layer4Servers(_, _)
Layer4Servers(i, n) ==
    IF n = 0 THEN <<>>
    ELSE handleLayer4Listener(Layer4Servers(i, n - 1), i, i.gateway.listeners[n])

\* The routes of the cluster of one kind (the List calls of gateway.go lines
\* 199-251).
RoutesOfKind(kind) ==
    IF route.exists /\ route.kind = kind THEN <<route>> ELSE <<>>

\* The caddy.Input of the Gateway reconcile (gateway.go lines 281-296).
ControllerInput(g) ==
    [gateway |-> g,
     httpRoutes |-> filterHTTPRoutesByGateway(g, RoutesOfKind("HTTPRoute")),
     udpRoutes |-> filterUDPRoutesByGateway(g, RoutesOfKind("UDPRoute")),
     services |-> services]

\* IsGateway (internal/gateway.go lines 32-36)
IsGateway(parent) ==
    /\ (parent.kind = NIL \/ parent.kind = "Gateway")
    /\ (parent.group = NIL \/ parent.group = GatewayGroup)

\* The Gateway watch of the HTTPRoute controller (route_http.go lines 81-105,
\* 211-226): the routes whose spec.parentRefs name the Gateway.
enqueueRequestForGateway(g, r) ==
    /\ r.exists
    /\ \E k \in DOMAIN r.parentRefs :
           /\ IsGateway(r.parentRefs[k])
           /\ NamespaceDerefOr(r.parentRefs[k].namespace, r.namespace) = g.namespace
           /\ r.parentRefs[k].name = g.name

\* HTTPRouteReconciler.Reconcile (route_http.go lines 112-202) taken from
\* the queue.  The status update, if any, is an update event of the route:
\* For(&HTTPRoute{}) has no predicate, and the route watch of the Gateway
\* controller lets it pass when the status changed.
HTTPRouteWorker ==
    /\ routeQueued /\ route.exists /\ route.kind = "HTTPRoute"
    /\ \E t \in now..(IF now < MaxTime THEN now + 1 ELSE now) :
       \E new \in {ValidatedRoute(route, gw, grants, services, t)} :
       \E stored \in {IF ~RouteStatusEqual(route.status, new.status)
                      THEN [route EXCEPT !.status = new.status] ELSE route} :
        LET existing == IF gw.exists /\ gwc.exists
                            /\ MatchesControllerName(gwc.controllerName)
                        THEN {gw.name} ELSE {}
        IN  /\ now' = t
            /\ route' = stored
            /\ routeQueued' = (stored # route)
            /\ queued' = \/ queued
                         \/ /\ stored # route
                            /\ onlyStatusChanged(route, stored)
                            /\ getReconcileRequestsForRoute(
                                   stored.parentRefs, stored.namespace, existing) # <<>>
            /\ updates' = IF stored # route THEN updates + 1 ELSE updates
    /\ UNCHANGED <<gwc, gw, epsList, svcList, configFails, pc, gwNew, addrs, idx, wg,
                   task, attempts, statusWrites, result, failedBefore>>
    /\ UNCHANGED <<grants, services, config, clean, layer4Servers, grantVars,
                   functionVars>>

\* UDPRouteReconciler.Reconcile (route_udp.go lines 37-42) taken from the
\* queue: it returns at once.
UDPRouteWorker ==
    /\ routeQueued /\ route.exists /\ route.kind = "UDPRoute"
    /\ routeQueued' = FALSE
    /\ UNCHANGED <<now, progVars, clusterVars, grantVars, functionVars,
                   layer4Servers, updates>>

\* GatewayReconciler.Reconcile (gateway.go lines 162-384) taken from the
\* queue.  A returned error puts the key back (with backoff); a status
\* update that changed the Gateway is an update event for the Gateway
\* controller itself and for the HTTPRoute controller's Gateway watch.
GatewayWorker ==
    /\ queued /\ gw.exists /\ ~gw.deleting /\ gwc.exists
    /\ \E t \in now..(IF now < MaxTime THEN now + 1 ELSE now) :
        LET accepted ==
                [gw EXCEPT !.status.conditions =
                    SetStatusCondition(@, Condition("Accepted", "True", "Accepted",
                                                    "Gateway scheduled"), t)]
            done == Programmed(accepted, svcList, <<>>, t)
            write == NeedsStatusUpdate(gw, done.gateway)
            stored == IF write THEN [gw EXCEPT !.status = done.gateway.status] ELSE gw
        IN  /\ now' = t
            /\ IF ~MatchesControllerName(gwc.controllerName) \/ ~ClassAccepted(gwc)
               THEN /\ UNCHANGED <<gw, config, layer4Servers, routeQueued, updates>>
                    /\ statusWrites' = 0
                    /\ result' = "nil"
                    /\ queued' = FALSE
               ELSE IF \/ configFails
                       \/ ~HasEndpoints(epsList)
                       \/ Len(epsList[1].subsets) < 1
               THEN /\ UNCHANGED <<gw, config, layer4Servers, routeQueued, updates>>
                    /\ statusWrites' = 0
                    /\ result' = "err"
                    /\ queued' = TRUE
               ELSE /\ config' = Config(ControllerInput(gw))
                    /\ layer4Servers' =
                           Layer4Servers(ControllerInput(gw), Len(gw.listeners))
                    /\ gw' = stored
                    /\ statusWrites' = IF write THEN 1 ELSE 0
                    /\ result' = IF done.failed THEN "err" ELSE "nil"
                    /\ queued' = (done.failed \/ stored # gw)
                    /\ routeQueued' =
                           \/ routeQueued
                           \/ /\ stored # gw
                              /\ route.kind = "HTTPRoute"
                              /\ enqueueRequestForGateway(gw, route)
                    /\ updates' = IF stored # gw THEN updates + 1 ELSE updates
    /\ UNCHANGED <<gwc, epsList, svcList, configFails, pc, gwNew, addrs, idx, wg,
                   task, attempts, failedBefore>>
    /\ UNCHANGED <<route, grants, services, clean, grantVars, functionVars>>

\* The cluster at the creation of the route: the Gateway and the route are
\* new (no status, both keys queued by their create events), the route is
\* in the Gateway's namespace or in the other one, the class of
\* the Gateway is accepted or belongs to another controller, the Endpoints
\* and the Service of the data plane exist or not.
InitControllers ==
    /\ now = 1
    /\ \E kind \in ControllerRouteKinds :
           /\ \E r \in HTTPRoutes :
                  /\ r.hostnames = <<>>
                  /\ r.parentRefs = <<ParentRef(IF r.namespace = GwNamespace
                                                THEN NIL ELSE GwNamespace, NIL)>>
                  /\ r.rules = <<[backendRefs |-> <<BackendRef(NIL)>>]>>
                  /\ route = r @@ [kind |-> kind]
           /\ gw = [exists |-> TRUE, deleting |-> FALSE, namespace |-> GwNamespace,
                    name |-> GwName,
                    listeners |-> IF kind = "HTTPRoute"
                                  THEN <<Listener("l1", 80, <<>>, NIL, <<>>)>>
                                  ELSE <<UDPListener("l1", 53)>>,
                    status |-> EmptyGatewayStatus]
    /\ \E cn \in {ControllerName, <<"o">>} :
           gwc = [exists |-> TRUE, controllerName |-> cn,
                  status |-> [conditions |->
                                  <<Condition("Accepted", "True", "Accepted", "")>>,
                              supportedFeatures |-> <<>>]]
    /\ epsList \in {<<>>, <<[namespace |-> GwNamespace,
                            subsets |-> <<[addresses |-> <<[hasTargetRef |-> TRUE]>>]>>]>>}
    /\ svcList \in {<<>>, <<[namespace |-> GwNamespace,
                            ingress |-> <<[ip |-> "ip1", hostname |-> ""]>>]>>}
    /\ configFails \in BOOLEAN
    /\ queued = TRUE
    /\ pc = "idle"
    /\ gwNew = gw
    /\ addrs = <<>>
    /\ idx = 1
    /\ wg = 0
    /\ task = <<>>
    /\ attempts = <<>>
    /\ statusWrites = 0
    /\ result = "none"
    /\ failedBefore = {}
    /\ grants = <<>>
    /\ services = AllServices
    /\ config = <<>>
    /\ clean = [gateway |-> FALSE, class |-> FALSE, route |-> FALSE]
    /\ routeQueued = TRUE
    /\ layer4Servers = <<>>
    /\ updates = 0
    /\ NoCall
    /\ NoFunction

NextControllers ==
    \/ HTTPRouteWorker
    \/ UDPRouteWorker
    \/ GatewayWorker

\* Each controller's worker takes a queued key in the end.
SpecControllers ==
    /\ InitControllers
    /\ [][NextControllers]_vars
    /\ WF_vars(HTTPRouteWorker)
    /\ WF_vars(UDPRouteWorker)
    /\ WF_vars(GatewayWorker)


(***************************************************************************)
(* Claims on the controllers                                               *)
(***************************************************************************)

\* The route has just been created, it is valid, its parent reference names
\* the Gateway, whose class is accepted and whose data plane can be
\* programmed, and the listeners of the Gateway admit it: same namespace, no
\* section name, no hostname, no restriction of kinds, a backend Service of
\* its own namespace that exists.
NewAdmittedRoute ==
    /\ route.exists /\ route.status.parents = <<>>
    /\ gw.exists /\ gw.status = EmptyGatewayStatus
    /\ MatchesControllerName(gwc.controllerName) /\ ClassAccepted(gwc)
    /\ ~configFails /\ HasEndpoints(epsList) /\ Len(svcList) > 0
    /\ route.namespace = gw.namespace
    /\ route.hostnames = <<>>
    /\ route.parentRefs = <<ParentRef(NIL, NIL)>>
    /\ \A k \in DOMAIN gw.listeners :
           /\ gw.listeners[k].allowedRoutes.kinds = <<>>
           /\ gw.listeners[k].allowedRoutes.namespaces \in {NIL, "All", "Same"}
    /\ gw.listeners[1].hostname = <<>>
    /\ route.rules = <<[backendRefs |-> <<BackendRef(NIL)>>]>>
    /\ services = AllServices

\* The last configuration pushed for the Gateway has a route of the route
\* object, among its HTTP servers or among its layer4 servers.
RouteInPushedConfig ==
    \/ \E s \in DOMAIN config : \E e \in DOMAIN config[s].routes :
           config[s].routes[e].route = <<route.namespace, route.name>>
    \/ \E s \in DOMAIN layer4Servers : \E e \in DOMAIN layer4Servers[s].routes :
           layer4Servers[s].routes[e].route = <<route.namespace, route.name>>

\* C29: for every route kind whose reconciler is registered, a newly created
\* valid route whose parent reference names an accepted Gateway and that the
\* listener admits is, in the end, in a configuration pushed for the Gateway,
\* with no further change to the cluster.
C29_NewRouteReachesConfig == NewAdmittedRoute ~> RouteInPushedConfig

\* The same for the HTTPRoute alone.
C29_NewHTTPRouteReachesConfig ==
    (NewAdmittedRoute /\ route.kind = "HTTPRoute") ~> RouteInPushedConfig

\* No key is in a work queue.
Quiescent == ~queued /\ ~routeQueued

====
